---- MODULE Spec2Model ----
(***************************************************************************)
(* State-machine model of the STM32 firmware's real-time communication     *)
(* core: the UART2 receive interrupt and its stream buffer, the ESP8266    *)
(* communication task (line assembly, command dispatch, bounded-retry      *)
(* transmit, STM32_PING heartbeat) and the task watchdog.                  *)
(*                                                                         *)
(* Bytes are one-character strings, lines and frames are sequences of      *)
(* bytes.  Time is the FreeRTOS tick count (1 tick = 1 ms).                *)
(***************************************************************************)
EXTENDS Integers, Sequences, FiniteSets, TLC

VARIABLES
    peer_frame,           \* frame the ESP8266 is currently clocking out on UART2
    peer_pos,             \* bytes of peer_frame already received by the UART
    peer_sent,            \* total bytes received by the UART so far
    uart_stream_buffer,   \* FreeRTOS stream buffer (ISR -> task)
    rx_buffer,            \* command line buffer, the rx_index bytes written so far
    rx_index,             \* cursor into rx_buffer
    tick,                 \* xTaskGetTickCount()
    last_ping_sent,
    last_pong_received,
    waiting_for_pong,
    uart_connection_ok,
    ping_random_seed,     \* 32-bit LCG state, as <<high 16 bits, low 16 bits>>
    next_ping_jitter,
    buffer_warning_shown,
    current_pattern,      \* led_effects.c current_pattern
    wd_id,                \* the communication task's watchdog handle
    watchdog_tasks,       \* watchdog.c table, indexed 0 .. WATCHDOG_MAX_TASKS-1
    num_registered,
    timeout_callback,     \* watchdog.c: TRUE when a timeout callback has been set
    last_wake,            \* watchdog_task's last_wake
    tx_failures,          \* failed HAL_UART_Transmit attempts so far (bounded)
    events,               \* what the last step did, in program order
    segment,              \* bytes processed since the last line terminator
    accepted,             \* bytes the stream buffer accepted, in order
    consumed,             \* bytes the task processed, in order
    health_log,           \* the link-health messages posted so far (alert / restored)
    fed_at,               \* per watchdog entry: tick of its registration or last feed
    alerted_at,           \* per watchdog entry: ticks of the alerts raised since then
    print_queue,          \* print_task.c print_queue: the messages waiting, oldest first
    message_buffer,       \* print_task_handler's message_buffer
    uart3_out,            \* the messages written to UART3, in order
    task,                 \* per task: where it is, and the wait it is in
    wd_local,             \* watchdog_task's locals now and id
    enqueued,             \* the messages print_queue accepted, in order
    posted,               \* per task: number of print_message calls made
    lastAckReceived,      \* ESP8266: last OK:/ERROR: line received from the STM32
    rxBuffer,             \* ESP8266: processSTM32Response's static line buffer
    stm32Serial,          \* ESP8266: bytes received from the STM32, not yet read
    recentRequests,       \* ESP8266: request log, indexed 0 .. MAX_REQUESTS-1
    requestIndex,
    totalRequests,
    uartConnectionOK,
    waitingForEcho,
    millis,               \* ESP8266: millis()
    esp,                  \* ESP8266: where the sketch is, and handlePattern's locals
    stm32_tx              \* frames the STM32 has still to transmit to the ESP8266

vars == <<peer_frame, peer_pos, peer_sent, uart_stream_buffer, rx_buffer, rx_index,
          tick, last_ping_sent, last_pong_received, waiting_for_pong,
          uart_connection_ok, ping_random_seed, next_ping_jitter,
          buffer_warning_shown, current_pattern, wd_id, watchdog_tasks,
          num_registered, timeout_callback, last_wake, tx_failures, events, segment, accepted, consumed,
          health_log, fed_at, alerted_at, print_queue, message_buffer, uart3_out, task,
          wd_local, enqueued, posted, lastAckReceived, rxBuffer, stm32Serial,
          recentRequests, requestIndex, totalRequests, uartConnectionOK, waitingForEcho,
          millis, esp, stm32_tx>>

(***************************************************************************)
(* Program constants                                                       *)
(***************************************************************************)
UART_RX_BUFFER_SIZE == 64
UART_STREAM_BUFFER_SIZE == 128
STM32_PING_INTERVAL_MS == 10000
STM32_PING_JITTER_MS == 2000
STM32_PING_TIMEOUT_MS == 1000
RX_TIMEOUT_MS == 100
RETRY_DELAY_MS == 10
MAX_RETRIES == 3
HIGH_WATER_MARK == 64
COMM_WD_TIMEOUT_MS == 5000
WATCHDOG_MAX_TASKS == 3
WATCHDOG_INVALID_ID == 255
WATCHDOG_CHECK_PERIOD_MS == 1000
configTICK_RATE_HZ == 1000

pdMS_TO_TICKS(ms) == (ms * configTICK_RATE_HZ) \div 1000
pdTICKS_TO_MS(ticks) == (ticks * 1000) \div configTICK_RATE_HZ

(***************************************************************************)
(* Bytes and strings                                                       *)
(***************************************************************************)
NUL == "\\0"
LF == "\\n"
CR == "\\r"

IsTerminator(ch) == ch = LF \/ ch = CR

S_PING == <<"P", "I", "N", "G">>
S_PONG == <<"P", "O", "N", "G">>
S_STM32_PING == <<"S", "T", "M", "3", "2", "_", "P", "I", "N", "G">>
S_STM32_PONG == <<"S", "T", "M", "3", "2", "_", "P", "O", "N", "G">>
S_LED_CMD == <<"L", "E", "D", "_", "C", "M", "D", ":">>

\* The C string stored at a buffer: the bytes before the first NUL.
RECURSIVE CStr(_)
CStr(buf) ==
    IF buf = <<>> \/ Head(buf) = NUL THEN <<>>
    ELSE <<Head(buf)>> \o CStr(Tail(buf))

\* strncmp(line, prefix, Len(prefix)) == 0 for a NUL-free prefix
StrNCmpEq(line, prefix) ==
    /\ Len(line) >= Len(prefix)
    /\ SubSeq(line, 1, Len(prefix)) = prefix

\* line[i] of a C string (0-based), reading the terminating NUL at Len(line)
CharAt(line, i) == IF i < Len(line) THEN line[i + 1] ELSE NUL

(***************************************************************************)
(* get_random_jitter: 32-bit linear congruential generator.  The seed is   *)
(* kept as two 16-bit halves so that the products stay below 2^31.         *)
(***************************************************************************)
LCG_MUL_HI == 25          \* 1664525 = 25 * 65536 + 26125
LCG_MUL_LO == 26125
LCG_ADD_HI == 15470       \* 1013904223 = 15470 * 65536 + 62303
LCG_ADD_LO == 62303
WORD == 65536

ToSeed(n) == <<n \div WORD, n % WORD>>

\* seed * 1664525 + 1013904223 (mod 2^32)
LcgNext(seed) ==
    LET ah == seed[1]
        al == seed[2]
        p == al * LCG_MUL_LO
        cross == (ah * LCG_MUL_LO + al * LCG_MUL_HI) % WORD
        lo == (p % WORD) + LCG_ADD_LO
        hi == ((p \div WORD) + cross + LCG_ADD_HI + (lo \div WORD)) % WORD
    IN <<hi, lo % WORD>>

\* seed % max, for max dividing into 16-bit arithmetic
SeedMod(seed, max) == ((seed[1] % max) * (WORD % max) + seed[2]) % max

\* get_random_jitter(max): the new seed and the value returned
get_random_jitter(seed, max) ==
    LET s == LcgNext(seed)
    IN [seed |-> s, value |-> SeedMod(s, max)]

(***************************************************************************)
(* HAL_UART_Transmit with the retry loop used for PONG, command            *)
(* acknowledgments and STM32_PING.  results[i] is the status the i-th HAL  *)
(* call would return.                                                      *)
(***************************************************************************)
HAL_Status == {"HAL_OK", "HAL_BUSY"}
TxResults == [1..MAX_RETRIES -> HAL_Status]
AllOk == [i \in 1..MAX_RETRIES |-> "HAL_OK"]

EvTx(frame, status) == [type |-> "tx", frame |-> frame, status |-> status]
EvDelay(ms) == [type |-> "delay", ms |-> ms]
EvPost(msg) == [type |-> "post", msg |-> msg]
EvSet(p) == [type |-> "set_pattern", pattern |-> p]

\* the retry loop without the break on HAL_OK
RECURSIVE RetryLoop_NoBreak(_, _, _, _)
RetryLoop_NoBreak(retry, frame, results, r) ==
    IF retry < MAX_RETRIES
    THEN LET status == results[retry + 1]
             r1 == [status |-> status, ev |-> Append(r.ev, EvTx(frame, status)),
                    elapsed |-> r.elapsed, failed |-> r.failed]
         IN IF status = "HAL_OK" THEN RetryLoop_NoBreak(retry + 1, frame, results, r1)
            ELSE RetryLoop_NoBreak(retry + 1, frame, results,
                           [r1 EXCEPT !.ev = Append(@, EvDelay(RETRY_DELAY_MS)),
                                      !.elapsed = @ + pdMS_TO_TICKS(RETRY_DELAY_MS),
                                      !.failed = @ + 1])
    ELSE r

\* for (retry = 0; retry < 3; retry++) { status = Transmit(); if OK break; vTaskDelay(10); }
RECURSIVE RetryLoop(_, _, _, _)
RetryLoop(retry, frame, results, r) ==
    IF retry < MAX_RETRIES
    THEN LET status == results[retry + 1]
             r1 == [status |-> status, ev |-> Append(r.ev, EvTx(frame, status)),
                    elapsed |-> r.elapsed, failed |-> r.failed]
         IN IF status = "HAL_OK" THEN r1
            ELSE RetryLoop(retry + 1, frame, results,
                           [r1 EXCEPT !.ev = Append(@, EvDelay(RETRY_DELAY_MS)),
                                      !.elapsed = @ + pdMS_TO_TICKS(RETRY_DELAY_MS),
                                      !.failed = @ + 1])
    ELSE r

SendWithRetry(frame, results) ==
    RetryLoop(0, frame, results,
              [status |-> "HAL_ERROR", ev |-> <<>>, elapsed |-> 0, failed |-> 0])

\* failed attempts a send with these results makes
FailedAttempts(results) == SendWithRetry(<<>>, results).failed

(***************************************************************************)
(* The three tasks and the print queue.  A task is at a position of its    *)
(* loop; in a blocking or polling call it also has the tick at which the   *)
(* call started and the timeout it was given.                              *)
(***************************************************************************)
PRINT_QUEUE_DEPTH == 5
PRINT_ENQUEUE_TIMEOUT_MS == 100
PRINT_RECEIVE_TIMEOUT_MS == 2000
PRINT_WD_TIMEOUT_MS == 5000
UART2_TX_TIMEOUT_MS == 100
WATCHDOG_TASK_PRIORITY == 4
PRINT_TASK_PRIORITY == 3
COMM_TASK_PRIORITY == 2
HAL_MAX_DELAY == -1       \* 0xFFFFFFFF: the call polls until the hardware is done

Tasks == {"Watchdog", "Print_Task", "ESP8266_Comm"}

Priority(t) ==
    CASE t = "Watchdog" -> WATCHDOG_TASK_PRIORITY
      [] t = "Print_Task" -> PRINT_TASK_PRIORITY
      [] t = "ESP8266_Comm" -> COMM_TASK_PRIORITY

At(pc, since, timeout) == [pc |-> pc, since |-> since, timeout |-> timeout]

\* the state of the tasks right after the scheduler has started them
RtosInit ==
    /\ print_queue = <<>>
    /\ message_buffer = <<>>
    /\ uart3_out = <<>>
    /\ task = [t \in Tasks |->
                 CASE t = "Watchdog" -> At("wd_delay", 0, WATCHDOG_CHECK_PERIOD_MS)
                   [] t = "Print_Task" -> At("p_receive", 0, PRINT_RECEIVE_TIMEOUT_MS)
                   [] t = "ESP8266_Comm" -> At("c_top", 0, 0)]
    /\ wd_local = [now |-> 0, id |-> 0]
    /\ enqueued = <<>>
    /\ posted = [t \in Tasks |-> 0]

RtosUnchanged ==
    UNCHANGED <<print_queue, message_buffer, uart3_out, task, wd_local, enqueued, posted>>

(***************************************************************************)
(* ESP8266_LED_WebServer.ino: the state of the bridge after setup()        *)
(***************************************************************************)
MAX_REQUESTS == 10
ACK_WAIT_MS == 500
ACK_POLL_DELAY_MS == 10
ESP_RX_BUFFER_LIMIT == 128

EmptyRequest == [endpoint |-> "", p |-> "", ack |-> <<>>]

BridgeInit ==
    /\ lastAckReceived = <<>>
    /\ rxBuffer = <<>>
    /\ stm32Serial = <<>>
    /\ recentRequests = [i \in 0..(MAX_REQUESTS - 1) |-> EmptyRequest]
    /\ requestIndex = 0
    /\ totalRequests = 0
    /\ uartConnectionOK = TRUE
    /\ waitingForEcho = FALSE
    /\ millis = 0
    /\ esp = [pc |-> "loop", pattern |-> "", startWait |-> 0]
    /\ stm32_tx = <<>>

BridgeUnchanged ==
    UNCHANGED <<lastAckReceived, rxBuffer, stm32Serial, recentRequests, requestIndex,
                totalRequests, uartConnectionOK, waitingForEcho, millis, esp, stm32_tx>>

(***************************************************************************)
(* watchdog.c                                                              *)
(***************************************************************************)
WatchdogIds == 0..(WATCHDOG_MAX_TASKS - 1)

\* memset(watchdog_tasks, 0, ...) in watchdog_init
EmptyEntry == [task_name |-> "", timeout_ms |-> 0, last_feed_tick |-> 0, registered |-> FALSE]
EmptyTable == [id \in WatchdogIds |-> EmptyEntry]

\* first id in 0..WATCHDOG_MAX_TASKS-1 whose slot is free, else WATCHDOG_MAX_TASKS
FreeSlot(tbl) ==
    IF \E id \in WatchdogIds : ~tbl[id].registered
    THEN CHOOSE id \in WatchdogIds :
            /\ ~tbl[id].registered
            /\ \A j \in WatchdogIds : j < id => tbl[j].registered
    ELSE WATCHDOG_MAX_TASKS

\* watchdog_register without the two capacity tests: the count is used as the id
watchdog_register_NoCapacityCheck(tbl, n, task_name, timeout_ms, now) ==
    IF n \in WatchdogIds
    THEN [id |-> n,
          tbl |-> [tbl EXCEPT ![n] = [task_name |-> task_name, timeout_ms |-> timeout_ms,
                                      last_feed_tick |-> now, registered |-> TRUE]],
          n |-> n + 1]
    ELSE [id |-> n, tbl |-> tbl, n |-> n + 1]

\* watchdog_register: the id returned, the table and the count afterwards
watchdog_register(tbl, n, task_name, timeout_ms, now) ==
    IF n >= WATCHDOG_MAX_TASKS
    THEN [id |-> WATCHDOG_INVALID_ID, tbl |-> tbl, n |-> n]
    ELSE LET id == FreeSlot(tbl)
         IN IF id >= WATCHDOG_MAX_TASKS
            THEN [id |-> WATCHDOG_INVALID_ID, tbl |-> tbl, n |-> n]
            ELSE [id |-> id,
                  tbl |-> [tbl EXCEPT ![id] = [task_name |-> task_name,
                                               timeout_ms |-> timeout_ms,
                                               last_feed_tick |-> now,
                                               registered |-> TRUE]],
                  n |-> n + 1]

\* watchdog_feed without the test of the registered flag
watchdog_feed_NoRegisteredCheck(tbl, id, now) ==
    IF id >= WATCHDOG_MAX_TASKS
    THEN tbl
    ELSE [tbl EXCEPT ![id].last_feed_tick = now]

\* watchdog_feed storing only the upper half of the tick count
watchdog_feed_Torn(tbl, id, now) ==
    IF id >= WATCHDOG_MAX_TASKS \/ ~tbl[id].registered
    THEN tbl
    ELSE [tbl EXCEPT ![id].last_feed_tick = (now \div 65536) * 65536]

\* watchdog_feed: the table afterwards
watchdog_feed(tbl, id, now) ==
    IF id >= WATCHDOG_MAX_TASKS \/ ~tbl[id].registered
    THEN tbl
    ELSE [tbl EXCEPT ![id].last_feed_tick = now]

\* what the pass records when entry id has timed out
AlertEvent(w, id, elapsed_ms, callback) ==
    [type |-> IF callback THEN "wd_callback" ELSE "wd_alert",
     id |-> id,
     task_name |-> w.tbl[id].task_name,
     elapsed_ms |-> elapsed_ms,
     timeout_ms |-> w.tbl[id].timeout_ms]

\* the pass leaving the loop after the first alert
RECURSIVE CheckFrom_StopAtFirst(_, _, _, _)
CheckFrom_StopAtFirst(id, w, now, callback) ==
    IF id >= WATCHDOG_MAX_TASKS THEN w
    ELSE IF ~w.tbl[id].registered THEN CheckFrom_StopAtFirst(id + 1, w, now, callback)
    ELSE LET elapsed_ms == pdTICKS_TO_MS(now - w.tbl[id].last_feed_tick)
         IN IF elapsed_ms > w.tbl[id].timeout_ms
            THEN [tbl |-> [w.tbl EXCEPT ![id].last_feed_tick = now],
                  ev |-> Append(w.ev, AlertEvent(w, id, elapsed_ms, callback))]
            ELSE CheckFrom_StopAtFirst(id + 1, w, now, callback)

\* the pass without the reset of last_feed_tick after an alert
RECURSIVE CheckFrom_NoReset(_, _, _, _)
CheckFrom_NoReset(id, w, now, callback) ==
    IF id >= WATCHDOG_MAX_TASKS THEN w
    ELSE IF ~w.tbl[id].registered THEN CheckFrom_NoReset(id + 1, w, now, callback)
    ELSE LET elapsed_ms == pdTICKS_TO_MS(now - w.tbl[id].last_feed_tick)
         IN IF elapsed_ms > w.tbl[id].timeout_ms
            THEN CheckFrom_NoReset(id + 1,
                                   [w EXCEPT !.ev = Append(@, AlertEvent(w, id, elapsed_ms,
                                                                         callback))],
                                   now, callback)
            ELSE CheckFrom_NoReset(id + 1, w, now, callback)

\* the pass with elapsed_ms >= timeout_ms as the test
RECURSIVE CheckFrom_AtTimeout(_, _, _, _)
CheckFrom_AtTimeout(id, w, now, callback) ==
    IF id >= WATCHDOG_MAX_TASKS THEN w
    ELSE IF ~w.tbl[id].registered THEN CheckFrom_AtTimeout(id + 1, w, now, callback)
    ELSE LET elapsed_ms == pdTICKS_TO_MS(now - w.tbl[id].last_feed_tick)
         IN IF elapsed_ms >= w.tbl[id].timeout_ms
            THEN CheckFrom_AtTimeout(id + 1,
                                     [tbl |-> [w.tbl EXCEPT ![id].last_feed_tick = now],
                                      ev |-> Append(w.ev, AlertEvent(w, id, elapsed_ms,
                                                                     callback))],
                                     now, callback)
            ELSE CheckFrom_AtTimeout(id + 1, w, now, callback)

\* watchdog_task, lines 407-443: the check of entry id and of those after it
\* the pass over the table freeing the slot of a task it has reported
RECURSIVE CheckFrom_Release(_, _, _, _)
CheckFrom_Release(id, w, now, callback) ==
    IF id >= WATCHDOG_MAX_TASKS THEN w
    ELSE IF ~w.tbl[id].registered THEN CheckFrom_Release(id + 1, w, now, callback)
    ELSE LET elapsed_ms == pdTICKS_TO_MS(now - w.tbl[id].last_feed_tick)
         IN IF elapsed_ms > w.tbl[id].timeout_ms
            THEN CheckFrom_Release(id + 1,
                                   [tbl |-> [w.tbl EXCEPT ![id].last_feed_tick = now,
                                                          ![id].registered = FALSE],
                                    ev |-> Append(w.ev, AlertEvent(w, id, elapsed_ms,
                                                                   callback))],
                                   now, callback)
            ELSE CheckFrom_Release(id + 1, w, now, callback)

RECURSIVE CheckFrom(_, _, _, _)
CheckFrom(id, w, now, callback) ==
    IF id >= WATCHDOG_MAX_TASKS THEN w
    ELSE IF ~w.tbl[id].registered THEN CheckFrom(id + 1, w, now, callback)
    ELSE LET elapsed_ticks == now - w.tbl[id].last_feed_tick
             elapsed_ms == pdTICKS_TO_MS(elapsed_ticks)
         IN IF elapsed_ms > w.tbl[id].timeout_ms
            THEN CheckFrom(id + 1,
                           [tbl |-> [w.tbl EXCEPT ![id].last_feed_tick = now],
                            ev |-> Append(w.ev, [type |-> IF callback THEN "wd_callback"
                                                          ELSE "wd_alert",
                                                 id |-> id,
                                                 task_name |-> w.tbl[id].task_name,
                                                 elapsed_ms |-> elapsed_ms,
                                                 timeout_ms |-> w.tbl[id].timeout_ms])],
                           now, callback)
            ELSE CheckFrom(id + 1, w, now, callback)

\* history of the watchdog entries: a registration or a feed that the table takes
\* starts a new silent period of the entry
FeedHistory(id, now) ==
    LET taken == id \in WatchdogIds /\ watchdog_tasks'[id].registered
    IN /\ fed_at' = IF taken THEN [fed_at EXCEPT ![id] = now] ELSE fed_at
       /\ alerted_at' = IF taken THEN [alerted_at EXCEPT ![id] = <<>>] ELSE alerted_at

\* the ids a pass of the monitor task raised an alert for, in order
RECURSIVE AlertedIds(_)
AlertedIds(evs) ==
    IF evs = <<>> THEN {}
    ELSE (IF Head(evs).type \in {"wd_alert", "wd_callback"} THEN {Head(evs).id} ELSE {})
         \cup AlertedIds(Tail(evs))

AlertHistory(evs, now) ==
    /\ alerted_at' = [id \in WatchdogIds |->
                        IF id \in AlertedIds(evs) THEN Append(alerted_at[id], now)
                        ELSE alerted_at[id]]
    /\ UNCHANGED fed_at

(***************************************************************************)
(* process_led_command.  c is the task's working state: the heartbeat      *)
(* statics, the LED pattern, and the trace of what the step has done.      *)
(***************************************************************************)
MSG_RECEIVED == "[ESP8266] Received"
MSG_PONG_SENT == "[ESP8266] PING received, sent PONG"
MSG_PONG_FAILED == "[ESP8266] ERROR: Failed to send PONG"
MSG_RESTORED == "[ESP8266] UART connection restored!"
MSG_PONG_RECEIVED == "[ESP8266] STM32_PONG received"
MSG_ACK_FAILED == "[LED] ERROR: Failed to send ACK to ESP8266"
MSG_PING_SENT == "[ESP8266] Sending STM32_PING..."
MSG_PING_FAILED == "[ESP8266] ERROR: Failed to send STM32_PING"
MSG_ALERT == "[ESP8266] ALERT: No STM32_PONG response!"
MSG_BROKEN == "[ESP8266] UART connection may be broken"
MSG_WARNING == "[ESP8266] WARNING: Stream buffer filling up"
MSG_OVERFLOW == "[ESP8266] ERROR: RX buffer overflow!"

Emit(c, evs) == [c EXCEPT !.ev = @ \o evs]

\* LedCommand with the actions of commands 3 and 4 exchanged
LedCommand_Swapped(cmd) ==
    CASE cmd = "1" -> [set |-> TRUE, pattern |-> "LED_PATTERN_1", ack |-> "OK:Pattern1",
                       log |-> "[LED] Pattern 1: All LEDs ON"]
      [] cmd = "2" -> [set |-> TRUE, pattern |-> "LED_PATTERN_2", ack |-> "OK:Pattern2",
                       log |-> "[LED] Pattern 2: Different Frequency Blink"]
      [] cmd = "3" -> [set |-> TRUE, pattern |-> "LED_PATTERN_NONE", ack |-> "OK:Pattern3",
                       log |-> "[LED] Pattern 3: Same Frequency Blink"]
      [] cmd = "4" -> [set |-> TRUE, pattern |-> "LED_PATTERN_3", ack |-> "OK:AllOFF",
                       log |-> "[LED] Pattern 4: All LEDs OFF"]
      [] OTHER -> [set |-> FALSE, pattern |-> "", ack |-> "ERROR:InvalidPattern",
                   log |-> "[LED] ERROR: Invalid pattern command"]

\* the switch on the command character: action, acknowledgment, log line
LedCommand(cmd) ==
    CASE cmd = "1" -> [set |-> TRUE, pattern |-> "LED_PATTERN_1", ack |-> "OK:Pattern1",
                       log |-> "[LED] Pattern 1: All LEDs ON"]
      [] cmd = "2" -> [set |-> TRUE, pattern |-> "LED_PATTERN_2", ack |-> "OK:Pattern2",
                       log |-> "[LED] Pattern 2: Different Frequency Blink"]
      [] cmd = "3" -> [set |-> TRUE, pattern |-> "LED_PATTERN_3", ack |-> "OK:Pattern3",
                       log |-> "[LED] Pattern 3: Same Frequency Blink"]
      [] cmd = "4" -> [set |-> TRUE, pattern |-> "LED_PATTERN_NONE", ack |-> "OK:AllOFF",
                       log |-> "[LED] Pattern 4: All LEDs OFF"]
      [] OTHER -> [set |-> FALSE, pattern |-> "", ack |-> "ERROR:InvalidPattern",
                   log |-> "[LED] ERROR: Invalid pattern command"]

\* apply the results of a retried send to the working state
AfterSend(c, r) ==
    [c EXCEPT !.ev = @ \o r.ev, !.elapsed = @ + r.elapsed, !.failed = @ + r.failed]

\* PingBranch that reports the PONG as sent whatever the status
PingBranch_AlwaysSent(c, results) ==
    LET r == SendWithRetry("PONG", results)
    IN Emit(AfterSend(c, r), <<EvPost(MSG_PONG_SENT)>>)

\* PingBranch taking the peer's PING as the answer to our own probe
PingBranch_ClearsWaiting(c, results) ==
    LET r == SendWithRetry("PONG", results)
        c1 == [AfterSend(c, r) EXCEPT !.waiting_for_pong = FALSE]
    IN IF r.status = "HAL_OK"
       THEN Emit(c1, <<EvPost(MSG_PONG_SENT)>>)
       ELSE Emit(c1, <<EvPost(MSG_PONG_FAILED)>>)

\* lines 99-114: PING from the ESP8266, answered with PONG
PingBranch(c, results) ==
    LET r == SendWithRetry("PONG", results)
        c1 == AfterSend(c, r)
    IN IF r.status = "HAL_OK"
       THEN Emit(c1, <<EvPost(MSG_PONG_SENT)>>)
       ELSE Emit(c1, <<EvPost(MSG_PONG_FAILED)>>)

\* PongBranch that leaves waiting_for_pong set
PongBranch_KeepWaiting(c, now) ==
    LET c1 == IF ~c.uart_connection_ok
              THEN [Emit(c, <<EvPost(MSG_RESTORED)>>) EXCEPT !.uart_connection_ok = TRUE]
              ELSE c
    IN Emit([c1 EXCEPT !.last_pong_received = now], <<EvPost(MSG_PONG_RECEIVED)>>)

\* lines 117-128: STM32_PONG, the reply to our STM32_PING
PongBranch(c, now) ==
    LET c1 == IF ~c.uart_connection_ok
              THEN [Emit(c, <<EvPost(MSG_RESTORED)>>) EXCEPT !.uart_connection_ok = TRUE]
              ELSE c
    IN Emit([c1 EXCEPT !.waiting_for_pong = FALSE, !.last_pong_received = now],
            <<EvPost(MSG_PONG_RECEIVED)>>)

\* LedBranch sending the acknowledgment before it sets the pattern
LedBranch_ReplyFirst(c, line, results) ==
    LET cmd == CharAt(line, 8)
        k == LedCommand(cmd)
        r == SendWithRetry(k.ack, results)
        c1 == AfterSend(c, r)
        c2 == IF k.set
              THEN [Emit(c1, <<EvSet(k.pattern)>>) EXCEPT !.current_pattern = k.pattern]
              ELSE c1
        c3 == IF r.status # "HAL_OK" THEN Emit(c2, <<EvPost(MSG_ACK_FAILED)>>) ELSE c2
    IN Emit(c3, <<EvPost(k.log)>>)

\* lines 131-186: LED_CMD:<character>
LedBranch(c, line, results) ==
    LET cmd == CharAt(line, 8)
        k == LedCommand(cmd)
        c1 == IF k.set
              THEN [Emit(c, <<EvSet(k.pattern)>>) EXCEPT !.current_pattern = k.pattern]
              ELSE c
        r == SendWithRetry(k.ack, results)
        c2 == AfterSend(c1, r)
        c3 == IF r.status # "HAL_OK" THEN Emit(c2, <<EvPost(MSG_ACK_FAILED)>>) ELSE c2
    IN Emit(c3, <<EvPost(k.log)>>)

\* process_led_command refusing PING and LED_CMD while the link is marked broken
process_led_command_HealthGate(c0, line, results, start) ==
    LET c == Emit(c0, <<[type |-> "line", line |-> line], EvPost(MSG_RECEIVED)>>)
    IN IF StrNCmpEq(line, S_STM32_PONG) THEN PongBranch(c, start + c.elapsed)
       ELSE IF ~c.uart_connection_ok THEN c
       ELSE IF StrNCmpEq(line, S_PING) THEN PingBranch(c, results)
       ELSE IF StrNCmpEq(line, S_LED_CMD) THEN LedBranch(c, line, results)
       ELSE c

\* start is the tick count when the call is made
\* the dispatcher answering PONG as if it were PING
process_led_command_Loose(c0, line, results, start) ==
    LET c == Emit(c0, <<[type |-> "line", line |-> line], EvPost(MSG_RECEIVED)>>)
    IN IF StrNCmpEq(line, S_PING) \/ StrNCmpEq(line, S_PONG) THEN PingBranch(c, results)
       ELSE IF StrNCmpEq(line, S_STM32_PONG) THEN PongBranch(c, start + c.elapsed)
       ELSE IF StrNCmpEq(line, S_LED_CMD) THEN LedBranch(c, line, results)
       ELSE c

process_led_command(c0, line, results, start) ==
    LET c == Emit(c0, <<[type |-> "line", line |-> line], EvPost(MSG_RECEIVED)>>)
    IN IF StrNCmpEq(line, S_PING) THEN PingBranch(c, results)
       ELSE IF StrNCmpEq(line, S_STM32_PONG) THEN PongBranch(c, start + c.elapsed)
       ELSE IF StrNCmpEq(line, S_LED_CMD) THEN LedBranch(c, line, results)
       ELSE c

(***************************************************************************)
(* esp8266_comm_task_handler: one iteration of the while (1) loop          *)
(***************************************************************************)
\* lines 289-316: the STM32_PING section, with now sampled at the loop top
\* the STM32_PING section raising waiting_for_pong after a failed burst as well
PingSection_SetOnFailure(c0, now, results) ==
    LET j == get_random_jitter(c0.ping_random_seed, STM32_PING_JITTER_MS)
        c == IF c0.last_ping_sent = 0
             THEN [c0 EXCEPT !.ping_random_seed = j.seed, !.next_ping_jitter = j.value]
             ELSE c0
        ping_interval_with_jitter == STM32_PING_INTERVAL_MS + c.next_ping_jitter
    IN IF (now - c.last_ping_sent) >= pdMS_TO_TICKS(ping_interval_with_jitter)
       THEN LET r == SendWithRetry("STM32_PING", results)
                c1 == AfterSend(Emit(c, <<[type |-> "probe"]>>), r)
                j2 == get_random_jitter(c1.ping_random_seed, STM32_PING_JITTER_MS)
            IN IF r.status = "HAL_OK"
               THEN Emit([c1 EXCEPT !.last_ping_sent = now,
                                    !.waiting_for_pong = TRUE,
                                    !.ping_random_seed = j2.seed,
                                    !.next_ping_jitter = j2.value],
                         <<EvPost(MSG_PING_SENT)>>)
               ELSE Emit([c1 EXCEPT !.waiting_for_pong = TRUE], <<EvPost(MSG_PING_FAILED)>>)
       ELSE c

PingSection(c0, now, results) ==
    LET j == get_random_jitter(c0.ping_random_seed, STM32_PING_JITTER_MS)
        c == IF c0.last_ping_sent = 0
             THEN [c0 EXCEPT !.ping_random_seed = j.seed, !.next_ping_jitter = j.value]
             ELSE c0
        ping_interval_with_jitter == STM32_PING_INTERVAL_MS + c.next_ping_jitter
    IN IF (now - c.last_ping_sent) >= pdMS_TO_TICKS(ping_interval_with_jitter)
       THEN LET r == SendWithRetry("STM32_PING", results)
                c1 == AfterSend(Emit(c, <<[type |-> "probe"]>>), r)
                j2 == get_random_jitter(c1.ping_random_seed, STM32_PING_JITTER_MS)
            IN IF r.status = "HAL_OK"
               THEN Emit([c1 EXCEPT !.last_ping_sent = now,
                                    !.waiting_for_pong = TRUE,
                                    !.ping_random_seed = j2.seed,
                                    !.next_ping_jitter = j2.value],
                         <<EvPost(MSG_PING_SENT)>>)
               ELSE Emit(c1, <<EvPost(MSG_PING_FAILED)>>)
       ELSE c

\* TimeoutSection without the test of uart_connection_ok: alerts on every timeout
TimeoutSection_NoEdge(c, now) ==
    IF c.waiting_for_pong /\ (now - c.last_ping_sent) >= pdMS_TO_TICKS(STM32_PING_TIMEOUT_MS)
    THEN [Emit(c, <<[type |-> "timeout"], EvPost(MSG_ALERT), EvPost(MSG_BROKEN)>>)
             EXCEPT !.uart_connection_ok = FALSE, !.waiting_for_pong = FALSE]
    ELSE c

\* TimeoutSection that resets waiting_for_pong only when it raises the alert
TimeoutSection_ClearOnEdge(c, now) ==
    IF c.waiting_for_pong /\ (now - c.last_ping_sent) >= pdMS_TO_TICKS(STM32_PING_TIMEOUT_MS)
    THEN IF c.uart_connection_ok
         THEN [Emit(c, <<[type |-> "timeout"], EvPost(MSG_ALERT), EvPost(MSG_BROKEN)>>)
                  EXCEPT !.uart_connection_ok = FALSE, !.waiting_for_pong = FALSE]
         ELSE Emit(c, <<[type |-> "timeout"]>>)
    ELSE c

\* lines 318-328: the ping timeout check
TimeoutSection(c, now) ==
    IF c.waiting_for_pong /\ (now - c.last_ping_sent) >= pdMS_TO_TICKS(STM32_PING_TIMEOUT_MS)
    THEN LET c1 == IF c.uart_connection_ok
                   THEN [Emit(c, <<[type |-> "timeout"], EvPost(MSG_ALERT), EvPost(MSG_BROKEN)>>)
                            EXCEPT !.uart_connection_ok = FALSE]
                   ELSE Emit(c, <<[type |-> "timeout"]>>)
         IN [c1 EXCEPT !.waiting_for_pong = FALSE]
    ELSE c

\* the high-water warning without its static flag
WarningSection_Repeating(c, bytes_available) ==
    IF bytes_available > HIGH_WATER_MARK
    THEN Emit(c, <<EvPost(MSG_WARNING)>>)
    ELSE c

\* lines 350-359: the one-shot high-water warning
WarningSection(c, bytes_available) ==
    IF bytes_available > HIGH_WATER_MARK /\ ~c.buffer_warning_shown
    THEN [Emit(c, <<EvPost(MSG_WARNING)>>) EXCEPT !.buffer_warning_shown = TRUE]
    ELSE c

\* the line assembler dispatching on every terminator, empty buffer or not
ProcessChar_EmptyLines(c, received_char, results, ovf_status, start) ==
    IF IsTerminator(received_char)
    THEN LET line == CStr(SubSeq(c.rx_buffer, 1, c.rx_index))
             c1 == process_led_command(c, line, results, start)
         IN [c1 EXCEPT !.rx_index = 0, !.rx_buffer = <<>>]
    ELSE IF c.rx_index >= UART_RX_BUFFER_SIZE - 1
    THEN [Emit(c, <<[type |-> "overflow"], EvTx("ERROR:BufferOverflow", ovf_status),
                    EvPost(MSG_OVERFLOW)>>)
             EXCEPT !.rx_index = 0, !.rx_buffer = <<>>,
                    !.failed = @ + (IF ovf_status = "HAL_OK" THEN 0 ELSE 1)]
    ELSE [c EXCEPT !.rx_buffer = Append(@, received_char), !.rx_index = @ + 1]

\* the line assembler with the overflow test at rx_index >= UART_RX_BUFFER_SIZE
ProcessChar_OffByOne(c, received_char, results, ovf_status, start) ==
    IF IsTerminator(received_char)
    THEN IF c.rx_index > 0
         THEN LET line == CStr(SubSeq(c.rx_buffer, 1, c.rx_index))
                  c1 == process_led_command(c, line, results, start)
              IN [c1 EXCEPT !.rx_index = 0, !.rx_buffer = <<>>]
         ELSE c
    ELSE IF c.rx_index >= UART_RX_BUFFER_SIZE
    THEN [Emit(c, <<[type |-> "overflow"], EvTx("ERROR:BufferOverflow", ovf_status),
                    EvPost(MSG_OVERFLOW)>>)
             EXCEPT !.rx_index = 0, !.rx_buffer = <<>>,
                    !.failed = @ + (IF ovf_status = "HAL_OK" THEN 0 ELSE 1)]
    ELSE [c EXCEPT !.rx_buffer = Append(@, received_char), !.rx_index = @ + 1]

\* the line assembler without the overflow branch
ProcessChar_Unbounded(c, received_char, results, ovf_status, start) ==
    IF IsTerminator(received_char)
    THEN IF c.rx_index > 0
         THEN LET line == CStr(SubSeq(c.rx_buffer, 1, c.rx_index))
                  c1 == process_led_command(c, line, results, start)
              IN [c1 EXCEPT !.rx_index = 0, !.rx_buffer = <<>>]
         ELSE c
    ELSE [c EXCEPT !.rx_buffer = Append(@, received_char), !.rx_index = @ + 1]

\* lines 362-387: the line assembler, fed one received byte
ProcessChar(c, received_char, results, ovf_status, start) ==
    IF IsTerminator(received_char)
    THEN IF c.rx_index > 0
         THEN LET line == CStr(SubSeq(c.rx_buffer, 1, c.rx_index))
                  c1 == process_led_command(c, line, results, start)
              IN [c1 EXCEPT !.rx_index = 0, !.rx_buffer = <<>>]
         ELSE c
    ELSE IF c.rx_index >= UART_RX_BUFFER_SIZE - 1
    THEN [Emit(c, <<[type |-> "overflow"], EvTx("ERROR:BufferOverflow", ovf_status),
                    EvPost(MSG_OVERFLOW)>>)
             EXCEPT !.rx_index = 0, !.rx_buffer = <<>>,
                    !.failed = @ + (IF ovf_status = "HAL_OK" THEN 0 ELSE 1)]
    ELSE [c EXCEPT !.rx_buffer = Append(@, received_char), !.rx_index = @ + 1]

\* the task's statics at the top of an iteration
TaskState ==
    [last_ping_sent |-> last_ping_sent, last_pong_received |-> last_pong_received,
     waiting_for_pong |-> waiting_for_pong, uart_connection_ok |-> uart_connection_ok,
     ping_random_seed |-> ping_random_seed, next_ping_jitter |-> next_ping_jitter,
     buffer_warning_shown |-> buffer_warning_shown, current_pattern |-> current_pattern,
     rx_buffer |-> rx_buffer, rx_index |-> rx_index,
     ev |-> <<>>, elapsed |-> 0, failed |-> 0]

\* the link-health messages among the posts of a step
RECURSIVE HealthPosts(_)
HealthPosts(evs) ==
    IF evs = <<>> THEN <<>>
    ELSE LET e == Head(evs)
             rest == HealthPosts(Tail(evs))
         IN IF e.type = "post" /\ e.msg = MSG_ALERT THEN <<"alert">> \o rest
            ELSE IF e.type = "post" /\ e.msg = MSG_RESTORED THEN <<"restored">> \o rest
            ELSE rest

Commit(c) ==
    /\ last_ping_sent' = c.last_ping_sent
    /\ last_pong_received' = c.last_pong_received
    /\ waiting_for_pong' = c.waiting_for_pong
    /\ uart_connection_ok' = c.uart_connection_ok
    /\ ping_random_seed' = c.ping_random_seed
    /\ next_ping_jitter' = c.next_ping_jitter
    /\ buffer_warning_shown' = c.buffer_warning_shown
    /\ current_pattern' = c.current_pattern
    /\ rx_buffer' = c.rx_buffer
    /\ rx_index' = c.rx_index
    /\ events' = c.ev
    /\ tick' = tick + c.elapsed
    /\ tx_failures' = tx_failures + c.failed
    /\ health_log' = health_log \o HealthPosts(c.ev)

(***************************************************************************)
(* Bounds of the model.  Each specification below runs the same interrupt  *)
(* and task actions against its own peer and its own horizon.              *)
(***************************************************************************)
MaxPeerBytes == 13        \* Spec: bytes the ESP8266 sends in one run
MaxTime == 305            \* Spec: tick count beyond which the clock is not advanced
MaxTxFailures == 3        \* failed HAL_UART_Transmit attempts in one run
HbMaxPeerBytes == 11      \* SpecHb
HbMaxTime == 12500
DeepMaxPeerBytes == 11    \* SpecDeep
DeepMaxTime == 23500
DeepMaxTxFailures == 0
LineMaxPeerBytes == 76    \* SpecLine
LineMaxTime == 105
LineMaxTxFailures == 1

StartTicks == {5}         \* tick count when the communication task starts

\* frames the ESP8266 sends: the protocol's frames, and some it never should
Frame(line) == line \o <<LF>>
Filler(n) == [i \in 1..n |-> "x"]

PeerFrames ==
    { Frame(S_PING), Frame(S_PONG), Frame(S_STM32_PONG),
      Frame(S_LED_CMD \o <<"1">>), Frame(S_LED_CMD \o <<"2">>),
      Frame(S_LED_CMD \o <<"3">>), Frame(S_LED_CMD \o <<"4">>),
      Frame(S_LED_CMD \o <<"9">>), Frame(S_LED_CMD), Frame(S_LED_CMD \o <<"1", "2">>),
      <<CR, LF>> }

HbFrames == { Frame(S_STM32_PONG), Frame(S_PONG), Frame(S_PING), Frame(S_LED_CMD \o <<"1">>) }

DeepFrames == { Frame(S_STM32_PONG) }

LineFrames ==
    { Frame(Filler(UART_RX_BUFFER_SIZE - 1)),
      Frame(Filler(UART_RX_BUFFER_SIZE)),
      Frame(Filler(UART_RX_BUFFER_SIZE) \o S_LED_CMD \o <<"1">>),
      <<"P", "I", "N", "G", CR, LF>> }

(***************************************************************************)
(* HAL_UART_RxCpltCallback: the UART has received the next byte of the     *)
(* peer's frame; the interrupt deposits it in the stream buffer, which     *)
(* stores it when it has room and rejects it otherwise.                    *)
(***************************************************************************)
\* a stream buffer that makes room for the new byte by dropping the oldest
xStreamBufferSendFromISR_Overwrite(buf, uart_rx_byte) ==
    IF Len(buf) < UART_STREAM_BUFFER_SIZE
    THEN [buf |-> Append(buf, uart_rx_byte), sent |-> 1]
    ELSE [buf |-> Append(Tail(buf), uart_rx_byte), sent |-> 1]

\* xStreamBufferSendFromISR(uart_stream_buffer, &uart_rx_byte, 1, ...): the buffer
\* afterwards and the number of bytes stored
xStreamBufferSendFromISR(buf, uart_rx_byte) ==
    IF Len(buf) < UART_STREAM_BUFFER_SIZE
    THEN [buf |-> Append(buf, uart_rx_byte), sent |-> 1]
    ELSE [buf |-> buf, sent |-> 0]

\* a receive that reads the byte and leaves it in the buffer
xStreamBufferReceive_Peek(buf) == [received_char |-> Head(buf), buf |-> buf]

\* xStreamBufferReceive(uart_stream_buffer, &received_char, 1, ...) on a buffer that
\* holds data: the byte read and the buffer afterwards
xStreamBufferReceive(buf) == [received_char |-> Head(buf), buf |-> Tail(buf)]

Deposit(uart_rx_byte) ==
    LET r == xStreamBufferSendFromISR(uart_stream_buffer, uart_rx_byte)
    IN /\ uart_stream_buffer' = r.buf
       /\ accepted' = IF r.sent = 1 THEN Append(accepted, uart_rx_byte) ELSE accepted
       /\ events' = <<[type |-> "isr", byte |-> uart_rx_byte, stored |-> (r.sent = 1)]>>

HAL_UART_RxCpltCallback(frames, maxBytes) ==
    /\ \/ /\ peer_pos < Len(peer_frame)
          /\ Deposit(peer_frame[peer_pos + 1])
          /\ peer_pos' = peer_pos + 1
          /\ UNCHANGED peer_frame
       \/ /\ peer_pos = Len(peer_frame)
          /\ \E f \in frames :
                /\ peer_sent + Len(f) <= maxBytes
                /\ peer_frame' = f
                /\ peer_pos' = 1
                /\ Deposit(f[1])
    /\ peer_sent' = peer_sent + 1
    /\ UNCHANGED <<rx_buffer, rx_index, tick, last_ping_sent, last_pong_received,
                   waiting_for_pong, uart_connection_ok, ping_random_seed,
                   next_ping_jitter, buffer_warning_shown, current_pattern, wd_id,
                   watchdog_tasks, num_registered, timeout_callback, last_wake,
                   tx_failures, segment, consumed, health_log, fed_at, alerted_at>>
    /\ RtosUnchanged
    /\ BridgeUnchanged

(***************************************************************************)
(* One loop iteration of esp8266_comm_task_handler.  now is the tick count *)
(* sampled at the top of the loop.                                         *)
(***************************************************************************)
\* the heartbeat part of an iteration, lines 286-328
HeartbeatSections(now, ping_results) ==
    TimeoutSection(PingSection(TaskState, now, ping_results), now)

Probed(c) == \E i \in 1..Len(c.ev) : c.ev[i].type = "probe"

\* the HAL statuses an iteration can meet: only the sends it makes have one
PingResults(now) ==
    IF Probed(PingSection(TaskState, now, AllOk)) THEN TxResults ELSE {AllOk}
ReplyResults(received_char) ==
    IF IsTerminator(received_char) /\ rx_index > 0 THEN TxResults ELSE {AllOk}
OverflowResults(received_char) ==
    IF ~IsTerminator(received_char) /\ rx_index >= UART_RX_BUFFER_SIZE - 1
    THEN HAL_Status ELSE {"HAL_OK"}

\* xStreamBufferReceive timed out: received == 0, feed the watchdog, continue
TaskIdle(maxTime, maxFail) ==
    /\ uart_stream_buffer = <<>>
    /\ \E ping_results \in PingResults(tick) :
          LET now == tick
              c1 == HeartbeatSections(now, ping_results)
              c2 == [Emit(c1, <<[type |-> "rx_timeout"], [type |-> "feed"]>>)
                        EXCEPT !.elapsed = @ + pdMS_TO_TICKS(RX_TIMEOUT_MS)]
          IN /\ tx_failures + c2.failed <= maxFail
             /\ tick + c2.elapsed <= maxTime
             /\ watchdog_tasks' = watchdog_feed(watchdog_tasks, wd_id, now + c2.elapsed)
             /\ FeedHistory(wd_id, now + c2.elapsed)
             /\ Commit(c2)
    /\ UNCHANGED <<peer_frame, peer_pos, peer_sent, uart_stream_buffer, wd_id,
                   num_registered, timeout_callback, last_wake, segment, accepted,
                   consumed>>
    /\ RtosUnchanged
    /\ BridgeUnchanged

\* xStreamBufferReceive returned one byte: feed the watchdog, process the byte
TaskByte(maxTime, maxFail) ==
    /\ uart_stream_buffer # <<>>
    /\ \E ping_results \in PingResults(tick),
          results \in ReplyResults(Head(uart_stream_buffer)),
          ovf_status \in OverflowResults(Head(uart_stream_buffer)) :
          LET now == tick
              rcv == xStreamBufferReceive(uart_stream_buffer)
              received_char == rcv.received_char
              c1 == HeartbeatSections(now, ping_results)
              c2 == Emit(c1, <<[type |-> "rx", byte |-> received_char, segment |-> segment],
                               [type |-> "feed"]>>)
              c3 == WarningSection(c2, Len(rcv.buf))
              c4 == ProcessChar(c3, received_char, results, ovf_status, now)
          IN /\ tx_failures + c4.failed <= maxFail
             /\ tick + c4.elapsed <= maxTime
             /\ watchdog_tasks' = watchdog_feed(watchdog_tasks, wd_id, now + c1.elapsed)
             /\ FeedHistory(wd_id, now + c1.elapsed)
             /\ uart_stream_buffer' = rcv.buf
             /\ consumed' = Append(consumed, received_char)
             /\ segment' = IF IsTerminator(received_char) THEN <<>>
                           ELSE Append(segment, received_char)
             /\ Commit(c4)
    /\ UNCHANGED <<peer_frame, peer_pos, peer_sent, wd_id, num_registered,
                   timeout_callback, last_wake, accepted>>
    /\ RtosUnchanged
    /\ BridgeUnchanged

(***************************************************************************)
(* Initial state: the scheduler has started, the print task has registered *)
(* with the watchdog, and the communication task has run up to its loop.   *)
(***************************************************************************)
Init ==
    /\ peer_frame = <<>>
    /\ peer_pos = 0
    /\ peer_sent = 0
    /\ uart_stream_buffer = <<>>
    /\ rx_buffer = <<>>
    /\ rx_index = 0
    /\ tick \in StartTicks
    /\ last_ping_sent = 0
    /\ last_pong_received = 0
    /\ waiting_for_pong = FALSE
    /\ uart_connection_ok = TRUE
    /\ ping_random_seed = ToSeed(tick)
    /\ next_ping_jitter = 0
    /\ buffer_warning_shown = FALSE
    /\ current_pattern = "LED_PATTERN_NONE"
    /\ LET r1 == watchdog_register(EmptyTable, 0, "Print_Task", 5000, 0)
           r2 == watchdog_register(r1.tbl, r1.n, "ESP8266_Comm", COMM_WD_TIMEOUT_MS, tick)
       IN /\ wd_id = r2.id
          /\ watchdog_tasks = r2.tbl
          /\ num_registered = r2.n
    /\ timeout_callback = FALSE
    /\ last_wake = 0
    /\ tx_failures = 0
    /\ events = <<>>
    /\ segment = <<>>
    /\ accepted = <<>>
    /\ consumed = <<>>
    /\ health_log = <<>>
    /\ fed_at = [id \in WatchdogIds |-> IF id = wd_id THEN tick ELSE 0]
    /\ alerted_at = [id \in WatchdogIds |-> <<>>]
    /\ RtosInit
    /\ BridgeInit

\* Spec: command dispatch, the peer sends any protocol frame
Next ==
    \/ HAL_UART_RxCpltCallback(PeerFrames, MaxPeerBytes)
    \/ TaskIdle(MaxTime, MaxTxFailures)
    \/ TaskByte(MaxTime, MaxTxFailures)

Spec == Init /\ [][Next]_vars

\* SpecHb: one heartbeat round (probe, timeout, recovery)
NextHb ==
    \/ HAL_UART_RxCpltCallback(HbFrames, HbMaxPeerBytes)
    \/ TaskIdle(HbMaxTime, MaxTxFailures)
    \/ TaskByte(HbMaxTime, MaxTxFailures)

SpecHb == Init /\ [][NextHb]_vars

\* SpecDeep: two heartbeat rounds
NextDeep ==
    \/ HAL_UART_RxCpltCallback(DeepFrames, DeepMaxPeerBytes)
    \/ TaskIdle(DeepMaxTime, DeepMaxTxFailures)
    \/ TaskByte(DeepMaxTime, DeepMaxTxFailures)

SpecDeep == Init /\ [][NextDeep]_vars

\* SpecJit: two heartbeat rounds with failing probes, from several start ticks;
\* the peer sends at most a stray terminator
JitMaxPeerBytes == 1
JitMaxTime == 23500
JitMaxTxFailures == 3
JitStartTicks == {0, 5, 1000}
JitFrames == { <<LF>> }

InitJit ==
    /\ peer_frame = <<>>
    /\ peer_pos = 0
    /\ peer_sent = 0
    /\ uart_stream_buffer = <<>>
    /\ rx_buffer = <<>>
    /\ rx_index = 0
    /\ tick \in JitStartTicks
    /\ last_ping_sent = 0
    /\ last_pong_received = 0
    /\ waiting_for_pong = FALSE
    /\ uart_connection_ok = TRUE
    /\ ping_random_seed = ToSeed(tick)
    /\ next_ping_jitter = 0
    /\ buffer_warning_shown = FALSE
    /\ current_pattern = "LED_PATTERN_NONE"
    /\ LET r1 == watchdog_register(EmptyTable, 0, "Print_Task", PRINT_WD_TIMEOUT_MS, 0)
           r2 == watchdog_register(r1.tbl, r1.n, "ESP8266_Comm", COMM_WD_TIMEOUT_MS, tick)
       IN /\ wd_id = r2.id
          /\ watchdog_tasks = r2.tbl
          /\ num_registered = r2.n
    /\ timeout_callback = FALSE
    /\ last_wake = 0
    /\ tx_failures = 0
    /\ events = <<>>
    /\ segment = <<>>
    /\ accepted = <<>>
    /\ consumed = <<>>
    /\ health_log = <<>>
    /\ fed_at = [id \in WatchdogIds |-> IF id = wd_id THEN tick ELSE 0]
    /\ alerted_at = [id \in WatchdogIds |-> <<>>]
    /\ RtosInit
    /\ BridgeInit

NextJit ==
    \/ HAL_UART_RxCpltCallback(JitFrames, JitMaxPeerBytes)
    \/ TaskIdle(JitMaxTime, JitMaxTxFailures)
    \/ TaskByte(JitMaxTime, JitMaxTxFailures)

SpecJit == InitJit /\ [][NextJit]_vars

\* SpecFlood: the peer sends faster than the task reads, until the stream
\* buffer is full
\* SpecInert: lines that match none of the three prefixes, next to one that does
InertMaxPeerBytes == 11
InertMaxTime == 305
InertMaxTxFailures == 1
S_ping == <<"p", "i", "n", "g">>
S_led_cmd_1 == <<"l", "e", "d", "_", "c", "m", "d", ":", "1">>
InertFrames ==
    { Frame(S_ping), Frame(S_PONG), Frame(<<"x">> \o S_PING), Frame(S_led_cmd_1),
      Frame(S_LED_CMD \o <<"1">>) }

NextInert ==
    \/ HAL_UART_RxCpltCallback(InertFrames, InertMaxPeerBytes)
    \/ TaskIdle(InertMaxTime, InertMaxTxFailures)
    \/ TaskByte(InertMaxTime, InertMaxTxFailures)

SpecInert == Init /\ [][NextInert]_vars

FloodMaxPeerBytes == 131
FloodMaxTime == 105
FloodMaxTxFailures == 1
FloodFrames == { Frame(Filler(UART_STREAM_BUFFER_SIZE + 2)) }

NextFlood ==
    \/ HAL_UART_RxCpltCallback(FloodFrames, FloodMaxPeerBytes)
    \/ TaskIdle(FloodMaxTime, FloodMaxTxFailures)
    \/ TaskByte(FloodMaxTime, FloodMaxTxFailures)

SpecFlood == Init /\ [][NextFlood]_vars

\* SpecLine: the line assembler against over-long lines
NextLine ==
    \/ HAL_UART_RxCpltCallback(LineFrames, LineMaxPeerBytes)
    \/ TaskIdle(LineMaxTime, LineMaxTxFailures)
    \/ TaskByte(LineMaxTime, LineMaxTxFailures)

SpecLine == Init /\ [][NextLine]_vars

\* SpecBytes: the line assembler against bytes that are not text; the UART
\* delivers any 8-bit value, 0x00 included
ByteMaxPeerBytes == 66
ByteMaxTime == 105
ByteMaxTxFailures == 1
ByteFrames ==
    { Frame(<<NUL>> \o Filler(UART_RX_BUFFER_SIZE - 2)),
      <<"P", NUL>> \o Filler(UART_RX_BUFFER_SIZE - 4) \o <<CR>>,
      Frame(Filler(UART_RX_BUFFER_SIZE - 1)),
      Frame(Filler(UART_RX_BUFFER_SIZE)) }

NextBytes ==
    \/ HAL_UART_RxCpltCallback(ByteFrames, ByteMaxPeerBytes)
    \/ TaskIdle(ByteMaxTime, ByteMaxTxFailures)
    \/ TaskByte(ByteMaxTime, ByteMaxTxFailures)

SpecBytes == Init /\ [][NextBytes]_vars

(***************************************************************************)
(* SpecWd: the watchdog on its own.  Tasks register and feed at any time,  *)
(* with valid and invalid ids; the monitor task wakes every check period.  *)
(***************************************************************************)
WdMaxTime == 2000         \* ticks after which the clock is no longer advanced
WdTickStep == 500         \* the clock advances in steps of this many ticks

WdNames == {"Print_Task", "ESP8266_Comm"}
WdTimeouts == {1500, 5000}
WdFeedIds == 0..WATCHDOG_MAX_TASKS \cup {WATCHDOG_INVALID_ID}

WdUnchanged ==
    /\ UNCHANGED <<peer_frame, peer_pos, peer_sent, uart_stream_buffer, rx_buffer, rx_index,
                   last_ping_sent, last_pong_received, waiting_for_pong, uart_connection_ok,
                   ping_random_seed, next_ping_jitter, buffer_warning_shown, current_pattern,
                   wd_id, tx_failures, segment, accepted, consumed, health_log,
                   print_queue, message_buffer, uart3_out, task, wd_local, enqueued, posted>>
    /\ BridgeUnchanged

RegUnchanged ==
    /\ UNCHANGED <<peer_frame, peer_pos, peer_sent, uart_stream_buffer, rx_buffer, rx_index,
                   last_ping_sent, last_pong_received, waiting_for_pong, uart_connection_ok,
                   ping_random_seed, next_ping_jitter, buffer_warning_shown, current_pattern,
                   wd_id, tx_failures, segment, accepted, consumed, health_log,
                   print_queue, message_buffer, uart3_out, wd_local, enqueued, posted>>
    /\ BridgeUnchanged

WdBefore == [tbl |-> watchdog_tasks, n |-> num_registered]

\* a task calls watchdog_register
Register ==
    /\ \E task_name \in WdNames, timeout_ms \in WdTimeouts :
          LET r == watchdog_register(watchdog_tasks, num_registered, task_name,
                                     timeout_ms, tick)
          IN /\ watchdog_tasks' = r.tbl
             /\ num_registered' = r.n
             /\ events' = <<[type |-> "wd_register", id |-> r.id, before |-> WdBefore]>>
             /\ FeedHistory(r.id, tick)
    /\ UNCHANGED <<tick, last_wake, timeout_callback>>
    /\ WdUnchanged

\* a task calls watchdog_feed
Feed(ids) ==
    /\ \E id \in ids :
          /\ watchdog_tasks' = watchdog_feed(watchdog_tasks, id, tick)
          /\ events' = <<[type |-> "wd_feed", id |-> id, before |-> WdBefore]>>
          /\ FeedHistory(id, tick)
    /\ UNCHANGED <<tick, last_wake, timeout_callback, num_registered>>
    /\ WdUnchanged

\* a task calls watchdog_set_callback
SetCallback ==
    /\ ~timeout_callback
    /\ timeout_callback' = TRUE
    /\ events' = <<[type |-> "wd_set_callback"]>>
    /\ UNCHANGED <<tick, last_wake, watchdog_tasks, num_registered, fed_at, alerted_at>>
    /\ WdUnchanged

\* time passes, up to the monitor task's next wake-up
NextWake == last_wake + pdMS_TO_TICKS(WATCHDOG_CHECK_PERIOD_MS)

TickAdvance(maxTime) ==
    /\ tick < NextWake
    /\ tick < maxTime
    /\ tick' = IF tick + WdTickStep < NextWake THEN tick + WdTickStep ELSE NextWake
    /\ events' = <<>>
    /\ UNCHANGED <<last_wake, timeout_callback, watchdog_tasks, num_registered, fed_at,
                   alerted_at>>
    /\ WdUnchanged

\* watchdog_task: vTaskDelayUntil has expired, one pass over the table
watchdog_task ==
    /\ tick = NextWake
    /\ LET w == CheckFrom(0, [tbl |-> watchdog_tasks, ev |-> <<>>], tick, timeout_callback)
       IN /\ watchdog_tasks' = w.tbl
          /\ events' = <<[type |-> "wd_check", before |-> WdBefore]>> \o w.ev
          /\ AlertHistory(w.ev, tick)
    /\ last_wake' = tick
    /\ UNCHANGED <<tick, timeout_callback, num_registered>>
    /\ WdUnchanged

\* after watchdog_init, before any task has registered
InitWd ==
    /\ peer_frame = <<>>
    /\ peer_pos = 0
    /\ peer_sent = 0
    /\ uart_stream_buffer = <<>>
    /\ rx_buffer = <<>>
    /\ rx_index = 0
    /\ tick = 0
    /\ last_ping_sent = 0
    /\ last_pong_received = 0
    /\ waiting_for_pong = FALSE
    /\ uart_connection_ok = TRUE
    /\ ping_random_seed = ToSeed(0)
    /\ next_ping_jitter = 0
    /\ buffer_warning_shown = FALSE
    /\ current_pattern = "LED_PATTERN_NONE"
    /\ wd_id = WATCHDOG_INVALID_ID
    /\ watchdog_tasks = EmptyTable
    /\ num_registered = 0
    /\ timeout_callback = FALSE
    /\ last_wake = 0
    /\ tx_failures = 0
    /\ events = <<>>
    /\ segment = <<>>
    /\ accepted = <<>>
    /\ consumed = <<>>
    /\ health_log = <<>>
    /\ fed_at = [id \in WatchdogIds |-> IF id = wd_id THEN tick ELSE 0]
    /\ alerted_at = [id \in WatchdogIds |-> <<>>]
    /\ RtosInit
    /\ BridgeInit

NextWd ==
    \/ Register
    \/ Feed(WdFeedIds)
    \/ SetCallback
    \/ TickAdvance(WdMaxTime)
    \/ watchdog_task

SpecWd == InitWd /\ [][NextWd]_vars

(***************************************************************************)
(* SpecHang: two tasks have registered at tick 0; each feeds or stays      *)
(* silent, over several check periods.                                     *)
(***************************************************************************)
HangMaxTime == 4000       \* ticks after which the clock is no longer advanced

HangTimeouts == {500, 1500}

InitHang ==
    /\ peer_frame = <<>>
    /\ peer_pos = 0
    /\ peer_sent = 0
    /\ uart_stream_buffer = <<>>
    /\ rx_buffer = <<>>
    /\ rx_index = 0
    /\ tick = 0
    /\ last_ping_sent = 0
    /\ last_pong_received = 0
    /\ waiting_for_pong = FALSE
    /\ uart_connection_ok = TRUE
    /\ ping_random_seed = ToSeed(0)
    /\ next_ping_jitter = 0
    /\ buffer_warning_shown = FALSE
    /\ current_pattern = "LED_PATTERN_NONE"
    /\ \E t0 \in HangTimeouts, t1 \in HangTimeouts :
          LET r1 == watchdog_register(EmptyTable, 0, "Print_Task", t0, 0)
              r2 == watchdog_register(r1.tbl, r1.n, "ESP8266_Comm", t1, 0)
          IN /\ wd_id = r2.id
             /\ watchdog_tasks = r2.tbl
             /\ num_registered = r2.n
    /\ timeout_callback = FALSE
    /\ last_wake = 0
    /\ tx_failures = 0
    /\ events = <<>>
    /\ segment = <<>>
    /\ accepted = <<>>
    /\ consumed = <<>>
    /\ health_log = <<>>
    /\ fed_at = [id \in WatchdogIds |-> 0]
    /\ alerted_at = [id \in WatchdogIds |-> <<>>]
    /\ RtosInit
    /\ BridgeInit

NextHang ==
    \/ Feed({id \in WatchdogIds : watchdog_tasks[id].registered})
    \/ SetCallback
    \/ TickAdvance(HangMaxTime)
    \/ watchdog_task

SpecHang == InitHang /\ [][NextHang]_vars

(***************************************************************************)
(* SpecRtos: the watchdog task, the print task and the communication task  *)
(* under the fixed-priority preemptive scheduler, with the print queue.    *)
(* Code between two calls takes no time; time passes while every task is   *)
(* blocked or while the running task polls the UART.                       *)
(***************************************************************************)
RtosMaxTime == 18100      \* ticks after which the clock is no longer advanced
RtosMaxPosts == 2         \* print_message calls the communication task makes
RtosMaxTxFailures == 1    \* UART2 transmits that run into their timeout

\* how long UART3 takes over one message, in ticks: no time, long enough for the
\* watchdog to notice, or until the queue has filled up behind it; a transmit
\* that takes none of these never ends
Uart3Durations == {0, 6500, 18050}

\* the ticks at which the communication task has something to log or to send
CommEventTicks == {0, 900, 5900}

PollingPcs == {"p_transmit", "c_transmit"}
WaitingPcs == {"wd_delay", "wd_print", "p_receive", "c_print", "c_delay", "c_receive"}

\* the timeout of the call task t is in has run out
Expired(t) ==
    /\ task[t].timeout # HAL_MAX_DELAY
    /\ tick - task[t].since >= pdMS_TO_TICKS(task[t].timeout)

\* task t is in the Ready (or Running) state of the kernel
Ready(t) ==
    CASE task[t].pc \in {"wd_delay", "c_delay", "c_receive"} -> Expired(t)
      [] task[t].pc \in {"wd_print", "c_print"} ->
            Len(print_queue) < PRINT_QUEUE_DEPTH \/ Expired(t)
      [] task[t].pc = "p_receive" -> print_queue # <<>> \/ Expired(t)
      [] OTHER -> TRUE

\* task t has the processor: it is ready and no task of higher priority is
Running(t) == Ready(t) /\ \A u \in Tasks : Priority(u) > Priority(t) => ~Ready(u)

\* xQueueSend storing the item whether or not a slot is free
xQueueSend_NoCapacity(queue, buffer, expired) ==
    [result |-> "pdPASS", queue |-> Append(queue, buffer)]

\* xQueueReceive handing out the newest item
xQueueReceive_Newest(queue) ==
    [buffer |-> queue[Len(queue)], queue |-> SubSeq(queue, 1, Len(queue) - 1)]

\* xQueueReceive(print_queue, message_buffer, timeout) on a queue that holds an item
xQueueReceive(queue) == [buffer |-> Head(queue), queue |-> Tail(queue)]

\* xQueueSend(print_queue, buffer, timeout): one pass of the kernel's loop
xQueueSend(queue, buffer, expired) ==
    IF Len(queue) < PRINT_QUEUE_DEPTH
    THEN [result |-> "pdPASS", queue |-> Append(queue, buffer)]
    ELSE IF expired THEN [result |-> "errQUEUE_FULL", queue |-> queue]
    ELSE [result |-> "blocked", queue |-> queue]

\* a - b in TickType_t arithmetic
TICK_WRAP == 2147483647   \* stands for 2^32, which is beyond the checker's integers
TickDiff(a, b) == IF a >= b THEN a - b ELSE a - b + TICK_WRAP

\* the watchdog id the print task got from watchdog_register
PrintWdId ==
    IF \E id \in WatchdogIds : watchdog_tasks[id].task_name = "Print_Task"
    THEN CHOOSE id \in WatchdogIds : watchdog_tasks[id].task_name = "Print_Task"
    ELSE WATCHDOG_INVALID_ID

\* what a step of a task works on
RtosState ==
    [queue |-> print_queue, buf |-> message_buffer, out |-> uart3_out, task |-> task,
     wd |-> wd_local, enq |-> enqueued, posted |-> posted, tbl |-> watchdog_tasks,
     fed |-> fed_at, alerted |-> alerted_at, last_wake |-> last_wake,
     fail |-> tx_failures, res |-> "none", ev |-> <<>>]

RtosCommit(n) ==
    /\ print_queue' = n.queue
    /\ message_buffer' = n.buf
    /\ uart3_out' = n.out
    /\ task' = n.task
    /\ wd_local' = n.wd
    /\ enqueued' = n.enq
    /\ posted' = n.posted
    /\ watchdog_tasks' = n.tbl
    /\ fed_at' = n.fed
    /\ alerted_at' = n.alerted
    /\ last_wake' = n.last_wake
    /\ tx_failures' = n.fail
    /\ events' = n.ev
    /\ UNCHANGED <<peer_frame, peer_pos, peer_sent, uart_stream_buffer, rx_buffer, rx_index,
                   tick, last_ping_sent, last_pong_received, waiting_for_pong,
                   uart_connection_ok, ping_random_seed, next_ping_jitter,
                   buffer_warning_shown, current_pattern, wd_id, num_registered,
                   timeout_callback, segment, accepted, consumed, health_log>>
    /\ BridgeUnchanged

Goto(st, t, pc, since, timeout) == [st EXCEPT !.task[t] = At(pc, since, timeout)]

\* print_message called (first) or resumed in xQueueSend by task t
print_message(st, t, first) ==
    LET buffer == [src |-> t, n |-> st.posted[t] + 1]
        r == xQueueSend(st.queue, buffer, ~first /\ Expired(t))
        waited == IF first THEN 0 ELSE tick - task[t].since
    IN IF r.result = "blocked" THEN [st EXCEPT !.res = "blocked"]
       ELSE [st EXCEPT !.queue = r.queue,
                       !.enq = IF r.result = "pdPASS" THEN Append(@, buffer) ELSE @,
                       !.posted[t] = @ + 1,
                       !.res = r.result,
                       !.ev = Append(@, [type |-> "print_return", task |-> t,
                                         msg |-> buffer, result |-> r.result,
                                         waited |-> waited, before |-> st.queue])]

\* watchdog_feed(id) called by a task at the current tick
FeedAt(st, id) ==
    LET taken == id \in WatchdogIds /\ st.tbl[id].registered
    IN [st EXCEPT !.tbl = watchdog_feed(@, id, tick),
                  !.fed = IF taken THEN [@ EXCEPT ![id] = tick] ELSE @,
                  !.alerted = IF taken THEN [@ EXCEPT ![id] = <<>>] ELSE @,
                  !.ev = Append(@, [type |-> "wd_feed", id |-> id,
                                    before |-> [tbl |-> st.tbl, n |-> num_registered]])]

\* esp8266_comm_task_handler at the top of a stretch of its loop: it posts a log
\* line (and resumes in xQueueSend if the queue was full), transmits on UART2, or
\* goes on to xStreamBufferReceive
CommTop ==
    /\ Running("ESP8266_Comm")
    /\ \/ /\ task["ESP8266_Comm"].pc = "c_top"
          /\ posted["ESP8266_Comm"] < RtosMaxPosts
          /\ tick \in CommEventTicks
          /\ LET n == print_message(RtosState, "ESP8266_Comm", TRUE)
             IN IF n.res = "blocked"
                THEN RtosCommit(Goto(n, "ESP8266_Comm", "c_print", tick,
                                     PRINT_ENQUEUE_TIMEOUT_MS))
                ELSE RtosCommit(n)
       \/ /\ task["ESP8266_Comm"].pc = "c_print"
          /\ RtosCommit(Goto(print_message(RtosState, "ESP8266_Comm", FALSE),
                             "ESP8266_Comm", "c_top", tick, 0))
       \/ /\ task["ESP8266_Comm"].pc = "c_top"
          /\ tx_failures < RtosMaxTxFailures
          /\ tick \in CommEventTicks
          /\ RtosCommit(Goto(RtosState, "ESP8266_Comm", "c_transmit", tick,
                             UART2_TX_TIMEOUT_MS))
       \/ /\ task["ESP8266_Comm"].pc = "c_top"
          /\ RtosCommit(Goto(RtosState, "ESP8266_Comm", "c_receive", tick, RX_TIMEOUT_MS))

\* HAL_UART_Transmit on UART2 ends: done, or HAL_TIMEOUT and the retry delay
CommTransmit ==
    /\ Running("ESP8266_Comm")
    /\ task["ESP8266_Comm"].pc = "c_transmit"
    /\ \/ /\ ~Expired("ESP8266_Comm")
          /\ RtosCommit(Goto([RtosState EXCEPT !.ev = <<EvTx("frame", "HAL_OK")>>],
                             "ESP8266_Comm", "c_top", tick, 0))
       \/ /\ Expired("ESP8266_Comm")
          /\ RtosCommit(Goto([RtosState EXCEPT !.ev = <<EvTx("frame", "HAL_TIMEOUT")>>,
                                               !.fail = @ + 1],
                             "ESP8266_Comm", "c_delay", tick, RETRY_DELAY_MS))

\* vTaskDelay(10 ms) after a failed attempt is over
CommDelay ==
    /\ Running("ESP8266_Comm")
    /\ task["ESP8266_Comm"].pc = "c_delay"
    /\ RtosCommit(Goto([RtosState EXCEPT !.ev = <<EvDelay(RETRY_DELAY_MS)>>],
                       "ESP8266_Comm", "c_top", tick, 0))

\* xStreamBufferReceive has timed out: feed the watchdog, next iteration
CommReceive ==
    /\ Running("ESP8266_Comm")
    /\ task["ESP8266_Comm"].pc = "c_receive"
    /\ RtosCommit(Goto(FeedAt(RtosState, wd_id), "ESP8266_Comm", "c_top", tick, 0))

\* print_task_handler going back to xQueueReceive after a timeout without feeding
PrintReceive_NoFeedOnTimeout ==
    /\ Running("Print_Task")
    /\ task["Print_Task"].pc = "p_receive"
    /\ IF print_queue # <<>>
       THEN RtosCommit(Goto([RtosState EXCEPT !.buf = xQueueReceive(print_queue).buffer,
                                              !.queue = xQueueReceive(print_queue).queue,
                                              !.ev = <<[type |-> "dequeue",
                                                        msg |-> xQueueReceive(print_queue).buffer]>>],
                            "Print_Task", "p_transmit", tick, HAL_MAX_DELAY))
       ELSE RtosCommit(Goto(RtosState, "Print_Task", "p_receive", tick,
                            PRINT_RECEIVE_TIMEOUT_MS))

\* print_task_handler resumes in xQueueReceive: a message to transmit, or the
\* 2000 ms are over and it feeds the watchdog
PrintReceive ==
    /\ Running("Print_Task")
    /\ task["Print_Task"].pc = "p_receive"
    /\ IF print_queue # <<>>
       THEN RtosCommit(Goto([RtosState EXCEPT !.buf = xQueueReceive(print_queue).buffer,
                                              !.queue = xQueueReceive(print_queue).queue,
                                              !.ev = <<[type |-> "dequeue",
                                                        msg |-> xQueueReceive(print_queue).buffer]>>],
                            "Print_Task", "p_transmit", tick, HAL_MAX_DELAY))
       ELSE RtosCommit(Goto(FeedAt(RtosState, PrintWdId), "Print_Task", "p_receive", tick,
                            PRINT_RECEIVE_TIMEOUT_MS))

\* HAL_UART_Transmit on UART3 is done: feed the watchdog, back to xQueueReceive
PrintTransmit ==
    /\ Running("Print_Task")
    /\ task["Print_Task"].pc = "p_transmit"
    /\ tick - task["Print_Task"].since \in Uart3Durations
    /\ RtosCommit(Goto(FeedAt([RtosState EXCEPT !.out = Append(@, message_buffer),
                                                 !.ev = <<[type |-> "uart3",
                                                           msg |-> message_buffer]>>],
                              PrintWdId),
                       "Print_Task", "p_receive", tick, PRINT_RECEIVE_TIMEOUT_MS))

\* watchdog_task: vTaskDelayUntil returns, now is sampled, the pass starts
WdWake ==
    /\ Running("Watchdog")
    /\ task["Watchdog"].pc = "wd_delay"
    /\ RtosCommit(Goto([RtosState EXCEPT
                           !.last_wake = @ + pdMS_TO_TICKS(WATCHDOG_CHECK_PERIOD_MS),
                           !.wd = [now |-> tick, id |-> 0],
                           !.ev = <<[type |-> "wd_check",
                                     before |-> [tbl |-> watchdog_tasks,
                                                 n |-> num_registered]]>>],
                       "Watchdog", "wd_check", tick, 0))

\* the entry's alert has been handed to print_message (or to the callback):
\* last_feed_tick = now, next entry
AfterAlert(st) ==
    Goto([st EXCEPT !.tbl[wd_local.id].last_feed_tick = wd_local.now,
                    !.wd.id = @ + 1],
         "Watchdog", "wd_check", tick, 0)

\* the pass posting its alert to the print queue even when a callback is set
WdCheck_AlsoPrints ==
    /\ Running("Watchdog")
    /\ task["Watchdog"].pc = "wd_check"
    /\ LET id == wd_local.id
           now == wd_local.now
           next == [RtosState EXCEPT !.wd.id = @ + 1]
       IN IF id >= WATCHDOG_MAX_TASKS
          THEN RtosCommit(Goto(RtosState, "Watchdog", "wd_delay", last_wake,
                               WATCHDOG_CHECK_PERIOD_MS))
          ELSE IF ~watchdog_tasks[id].registered THEN RtosCommit(next)
          ELSE LET elapsed_ticks == TickDiff(now, watchdog_tasks[id].last_feed_tick)
                   elapsed_ms == pdTICKS_TO_MS(elapsed_ticks)
                   raised == [RtosState EXCEPT
                                 !.alerted[id] = Append(@, tick),
                                 !.ev = <<AlertEvent([tbl |-> watchdog_tasks], id,
                                                     elapsed_ms, timeout_callback)
                                            @@ [now |-> now, fed |-> fed_at[id]]>>]
               IN IF elapsed_ms > watchdog_tasks[id].timeout_ms
                  THEN IF FALSE THEN RtosCommit(AfterAlert(raised))
                       ELSE LET n == print_message(raised, "Watchdog", TRUE)
                            IN IF n.res = "blocked"
                               THEN RtosCommit(Goto(n, "Watchdog", "wd_print", tick,
                                                    PRINT_ENQUEUE_TIMEOUT_MS))
                               ELSE RtosCommit(AfterAlert(n))
                  ELSE RtosCommit(next)

\* the pass transmitting its alert on UART3 itself instead of calling print_message
WdCheck_DirectOutput ==
    /\ Running("Watchdog")
    /\ task["Watchdog"].pc = "wd_check"
    /\ LET id == wd_local.id
           now == wd_local.now
           next == [RtosState EXCEPT !.wd.id = @ + 1]
       IN IF id >= WATCHDOG_MAX_TASKS
          THEN RtosCommit(Goto(RtosState, "Watchdog", "wd_delay", last_wake,
                               WATCHDOG_CHECK_PERIOD_MS))
          ELSE IF ~watchdog_tasks[id].registered THEN RtosCommit(next)
          ELSE LET elapsed_ticks == TickDiff(now, watchdog_tasks[id].last_feed_tick)
                   elapsed_ms == pdTICKS_TO_MS(elapsed_ticks)
                   raised == [RtosState EXCEPT
                                 !.alerted[id] = Append(@, tick),
                                 !.ev = <<AlertEvent([tbl |-> watchdog_tasks], id,
                                                     elapsed_ms, timeout_callback)
                                            @@ [now |-> now, fed |-> fed_at[id]]>>]
               IN IF elapsed_ms > watchdog_tasks[id].timeout_ms
                  THEN IF timeout_callback THEN RtosCommit(AfterAlert(raised))
                       ELSE RtosCommit(AfterAlert(
                               [raised EXCEPT !.out = Append(@, [src |-> "Watchdog",
                                                                 n |-> posted["Watchdog"] + 1]),
                                              !.posted["Watchdog"] = @ + 1]))
                  ELSE RtosCommit(next)

\* watchdog_task: the body of the for loop for entry wd_local.id
WdCheck ==
    /\ Running("Watchdog")
    /\ task["Watchdog"].pc = "wd_check"
    /\ LET id == wd_local.id
           now == wd_local.now
           next == [RtosState EXCEPT !.wd.id = @ + 1]
       IN IF id >= WATCHDOG_MAX_TASKS
          THEN RtosCommit(Goto(RtosState, "Watchdog", "wd_delay", last_wake,
                               WATCHDOG_CHECK_PERIOD_MS))
          ELSE IF ~watchdog_tasks[id].registered THEN RtosCommit(next)
          ELSE LET elapsed_ticks == TickDiff(now, watchdog_tasks[id].last_feed_tick)
                   elapsed_ms == pdTICKS_TO_MS(elapsed_ticks)
                   raised == [RtosState EXCEPT
                                 !.alerted[id] = Append(@, tick),
                                 !.ev = <<AlertEvent([tbl |-> watchdog_tasks], id,
                                                     elapsed_ms, timeout_callback)
                                            @@ [now |-> now, fed |-> fed_at[id]]>>]
               IN IF elapsed_ms > watchdog_tasks[id].timeout_ms
                  THEN IF timeout_callback THEN RtosCommit(AfterAlert(raised))
                       ELSE LET n == print_message(raised, "Watchdog", TRUE)
                            IN IF n.res = "blocked"
                               THEN RtosCommit(Goto(n, "Watchdog", "wd_print", tick,
                                                    PRINT_ENQUEUE_TIMEOUT_MS))
                               ELSE RtosCommit(AfterAlert(n))
                  ELSE RtosCommit(next)

\* the watchdog task resumes in print_message: a slot is free or time is up
WdPrint ==
    /\ Running("Watchdog")
    /\ task["Watchdog"].pc = "wd_print"
    /\ LET n == print_message(RtosState, "Watchdog", FALSE)
       IN IF n.res = "blocked" THEN RtosCommit(n) ELSE RtosCommit(AfterAlert(n))

\* the ticks at which the timeout of a call in progress runs out
Deadlines ==
    {task[t].since + pdMS_TO_TICKS(task[t].timeout) :
        t \in {u \in Tasks : /\ task[u].pc \in WaitingPcs \cup PollingPcs
                             /\ task[u].timeout # HAL_MAX_DELAY}}
    \cup {task[t].since + d : t \in {u \in Tasks : task[u].pc = "p_transmit"},
                              d \in Uart3Durations}

\* the tick interrupt, up to the next tick at which a timeout runs out
TimePasses ==
    /\ \/ \A t \in Tasks : ~Ready(t)
       \/ \E t \in Tasks : Running(t) /\ task[t].pc \in PollingPcs /\ ~Expired(t)
    /\ \E d \in Deadlines :
          /\ d > tick
          /\ \A e \in Deadlines : e > tick => d <= e
          /\ d <= RtosMaxTime
          /\ tick' = d
    /\ events' = <<>>
    /\ UNCHANGED <<peer_frame, peer_pos, peer_sent, uart_stream_buffer, rx_buffer, rx_index,
                   last_ping_sent, last_pong_received, waiting_for_pong,
                   uart_connection_ok, ping_random_seed, next_ping_jitter,
                   buffer_warning_shown, current_pattern, wd_id, watchdog_tasks,
                   num_registered, timeout_callback, last_wake, tx_failures, segment,
                   accepted, consumed, health_log, fed_at, alerted_at>>
    /\ RtosUnchanged
    /\ BridgeUnchanged

\* the scheduler has started; both tasks have registered with a 5000 ms timeout
InitRtos ==
    /\ peer_frame = <<>>
    /\ peer_pos = 0
    /\ peer_sent = 0
    /\ uart_stream_buffer = <<>>
    /\ rx_buffer = <<>>
    /\ rx_index = 0
    /\ tick = 0
    /\ last_ping_sent = 0
    /\ last_pong_received = 0
    /\ waiting_for_pong = FALSE
    /\ uart_connection_ok = TRUE
    /\ ping_random_seed = ToSeed(0)
    /\ next_ping_jitter = 0
    /\ buffer_warning_shown = FALSE
    /\ current_pattern = "LED_PATTERN_NONE"
    /\ LET r1 == watchdog_register(EmptyTable, 0, "Print_Task", PRINT_WD_TIMEOUT_MS, 0)
           r2 == watchdog_register(r1.tbl, r1.n, "ESP8266_Comm", COMM_WD_TIMEOUT_MS, 0)
       IN /\ wd_id = r2.id
          /\ watchdog_tasks = r2.tbl
          /\ num_registered = r2.n
    /\ timeout_callback \in BOOLEAN
    /\ last_wake = 0
    /\ tx_failures = 0
    /\ events = <<>>
    /\ segment = <<>>
    /\ accepted = <<>>
    /\ consumed = <<>>
    /\ health_log = <<>>
    /\ fed_at = [id \in WatchdogIds |-> 0]
    /\ alerted_at = [id \in WatchdogIds |-> <<>>]
    /\ RtosInit
    /\ BridgeInit

NextRtos ==
    \/ CommTop
    \/ CommTransmit
    \/ CommDelay
    \/ CommReceive
    \/ PrintReceive
    \/ PrintTransmit
    \/ WdWake
    \/ WdCheck
    \/ WdPrint
    \/ TimePasses

SpecRtos == InitRtos /\ [][NextRtos]_vars

\* SpecRtosFair: the scheduler runs the ready task of highest priority and the
\* tick interrupt keeps counting, so a step that stays possible is taken
SpecRtosFair == SpecRtos /\ WF_vars(NextRtos)

(***************************************************************************)
(* SpecAck: the communication task reads the terminator of a LED_CMD line  *)
(* and runs process_led_command under the scheduler, next to the print and  *)
(* watchdog tasks.  The task's record carries where it is in the function:  *)
(* step (which print_message call), cmd, the loop variable retry, and the   *)
(* tick at which the terminator was read.                                   *)
(***************************************************************************)
AckMaxPosts == 1          \* a command is read while the task has made fewer posts
AckReadTicks == {0, 900}
AckCommands == {"1", "9"}
ACK_LATENCY_TARGET_MS == 100

AckAt(pc, since, timeout, l) ==
    [pc |-> pc, since |-> since, timeout |-> timeout, step |-> l.step, cmd |-> l.cmd,
     retry |-> l.retry, read_at |-> l.read_at]

InDispatch == "step" \in DOMAIN task["ESP8266_Comm"]

AckLocal ==
    [step |-> task["ESP8266_Comm"].step, cmd |-> task["ESP8266_Comm"].cmd,
     retry |-> task["ESP8266_Comm"].retry, read_at |-> task["ESP8266_Comm"].read_at]

AckDone(result) ==
    [type |-> "ack_done", result |-> result, read_at |-> task["ESP8266_Comm"].read_at,
     at |-> tick]

AckCommit(n, pattern) ==
    /\ print_queue' = n.queue
    /\ message_buffer' = n.buf
    /\ uart3_out' = n.out
    /\ task' = n.task
    /\ wd_local' = n.wd
    /\ enqueued' = n.enq
    /\ posted' = n.posted
    /\ watchdog_tasks' = n.tbl
    /\ fed_at' = n.fed
    /\ alerted_at' = n.alerted
    /\ last_wake' = n.last_wake
    /\ tx_failures' = n.fail
    /\ events' = n.ev
    /\ current_pattern' = pattern
    /\ UNCHANGED <<peer_frame, peer_pos, peer_sent, uart_stream_buffer, rx_buffer, rx_index,
                   tick, last_ping_sent, last_pong_received, waiting_for_pong,
                   uart_connection_ok, ping_random_seed, next_ping_jitter,
                   buffer_warning_shown, wd_id, num_registered,
                   timeout_callback, segment, accepted, consumed, health_log>>
    /\ BridgeUnchanged

AckGoto(st, pc, timeout, l) ==
    [st EXCEPT !.task["ESP8266_Comm"] = AckAt(pc, tick, timeout, l)]

\* xStreamBufferReceive returns the terminator of a buffered LED_CMD line: the
\* watchdog is fed and process_led_command is entered
AckRead ==
    /\ Running("ESP8266_Comm")
    /\ task["ESP8266_Comm"].pc = "c_top"
    /\ posted["ESP8266_Comm"] < AckMaxPosts
    /\ tick \in AckReadTicks
    /\ \E cmd \in AckCommands :
          AckCommit(AckGoto([FeedAt(RtosState, wd_id) EXCEPT
                                !.ev = Append(@, [type |-> "line_read", cmd |-> cmd,
                                                  at |-> tick])],
                            "c_post", 0,
                            [step |-> "debug", cmd |-> cmd, retry |-> 0, read_at |-> tick]),
                    current_pattern)

\* print_message called, or resumed in xQueueSend, for the debug line, the
\* Failed report or the command's log line
AckPost ==
    /\ Running("ESP8266_Comm")
    /\ task["ESP8266_Comm"].pc \in {"c_post", "c_print"}
    /\ InDispatch
    /\ LET l == AckLocal
           n == print_message(RtosState, "ESP8266_Comm", task["ESP8266_Comm"].pc = "c_post")
       IN IF n.res = "blocked"
          THEN IF task["ESP8266_Comm"].pc = "c_post"
               THEN AckCommit(AckGoto(n, "c_print", PRINT_ENQUEUE_TIMEOUT_MS, l),
                              current_pattern)
               ELSE AckCommit(n, current_pattern)
          ELSE CASE l.step = "debug" ->
                      AckCommit(AckGoto(n, "c_call", 0, l), current_pattern)
                 [] l.step = "failed" ->
                      AckCommit(AckGoto(n, "c_post", 0, [l EXCEPT !.step = "log"]),
                                current_pattern)
                 [] l.step = "log" ->
                      AckCommit(Goto(n, "ESP8266_Comm", "c_top", tick, 0), current_pattern)

\* the switch on the command (before the first attempt), then HAL_UART_Transmit
\* of the acknowledgment is called with its 100 ms timeout
AckCall ==
    /\ Running("ESP8266_Comm")
    /\ task["ESP8266_Comm"].pc = "c_call"
    /\ LET l == AckLocal
           c == LedCommand(l.cmd)
           first == l.retry = 0 /\ c.set
       IN AckCommit(AckGoto([RtosState EXCEPT
                                !.ev = IF first
                                       THEN <<EvSet(c.pattern)>>
                                       ELSE <<>>],
                            "c_transmit", UART2_TX_TIMEOUT_MS, l),
                    IF first THEN c.pattern ELSE current_pattern)

\* HAL_UART_Transmit of the acknowledgment ends: HAL_OK and on to the log
\* line, or HAL_TIMEOUT and the retry delay
AckTransmit ==
    /\ Running("ESP8266_Comm")
    /\ task["ESP8266_Comm"].pc = "c_transmit"
    /\ LET l == AckLocal
           ack == LedCommand(l.cmd).ack
       IN \/ /\ ~Expired("ESP8266_Comm")
             /\ AckCommit(AckGoto([RtosState EXCEPT !.ev = <<EvTx(ack, "HAL_OK"),
                                                             AckDone("sent")>>],
                                   "c_post", 0, [l EXCEPT !.step = "log"]),
                          current_pattern)
          \/ /\ Expired("ESP8266_Comm")
             /\ AckCommit(AckGoto([RtosState EXCEPT !.ev = <<EvTx(ack, "HAL_TIMEOUT")>>,
                                                    !.fail = @ + 1],
                                   "c_delay", RETRY_DELAY_MS, l),
                          current_pattern)

\* vTaskDelay(10 ms) is over: the next attempt, or after the third the Failed report
AckDelay ==
    /\ Running("ESP8266_Comm")
    /\ task["ESP8266_Comm"].pc = "c_delay"
    /\ LET l == AckLocal
       IN IF l.retry + 1 < MAX_RETRIES
          THEN AckCommit(AckGoto([RtosState EXCEPT !.ev = <<EvDelay(RETRY_DELAY_MS)>>],
                                 "c_call", 0, [l EXCEPT !.retry = @ + 1]),
                         current_pattern)
          ELSE AckCommit(AckGoto([RtosState EXCEPT !.ev = <<EvDelay(RETRY_DELAY_MS),
                                                           AckDone("failed")>>],
                                 "c_post", 0, [l EXCEPT !.retry = @ + 1, !.step = "failed"]),
                         current_pattern)

\* no byte is buffered: the task blocks in xStreamBufferReceive
AckWait ==
    /\ Running("ESP8266_Comm")
    /\ task["ESP8266_Comm"].pc = "c_top"
    /\ RtosCommit(Goto(RtosState, "ESP8266_Comm", "c_receive", tick, RX_TIMEOUT_MS))

NextAck ==
    \/ AckRead
    \/ AckPost
    \/ AckCall
    \/ AckTransmit
    \/ AckDelay
    \/ AckWait
    \/ CommReceive
    \/ PrintReceive
    \/ PrintTransmit
    \/ WdWake
    \/ WdCheck
    \/ WdPrint
    \/ TimePasses

SpecAck == InitRtos /\ [][NextAck]_vars

(***************************************************************************)
(* SpecReg: watchdog_register called by the print task and the             *)
(* communication task while the other may be inside its own call.  The      *)
(* capacity test and the search for a free slot run outside the critical    *)
(* section (lines 291-306), the write inside it (lines 309-318), so a call  *)
(* is two steps, between which another task may run.                        *)
(***************************************************************************)
Registrants == {"Print_Task", "ESP8266_Comm"}

InitReg ==
    /\ peer_frame = <<>>
    /\ peer_pos = 0
    /\ peer_sent = 0
    /\ uart_stream_buffer = <<>>
    /\ rx_buffer = <<>>
    /\ rx_index = 0
    /\ tick = 0
    /\ last_ping_sent = 0
    /\ last_pong_received = 0
    /\ waiting_for_pong = FALSE
    /\ uart_connection_ok = TRUE
    /\ ping_random_seed = ToSeed(0)
    /\ next_ping_jitter = 0
    /\ buffer_warning_shown = FALSE
    /\ current_pattern = "LED_PATTERN_NONE"
    /\ wd_id = WATCHDOG_INVALID_ID
    /\ watchdog_tasks = EmptyTable
    /\ num_registered = 0
    /\ timeout_callback = FALSE
    /\ last_wake = 0
    /\ tx_failures = 0
    /\ events = <<>>
    /\ segment = <<>>
    /\ accepted = <<>>
    /\ consumed = <<>>
    /\ health_log = <<>>
    /\ fed_at = [id \in WatchdogIds |-> IF id = wd_id THEN tick ELSE 0]
    /\ alerted_at = [id \in WatchdogIds |-> <<>>]
    /\ print_queue = <<>>
    /\ message_buffer = <<>>
    /\ uart3_out = <<>>
    /\ task = [t \in Tasks |-> [pc |-> IF t \in Registrants THEN "r_call" ELSE "wd_delay",
                               id |-> WATCHDOG_INVALID_ID]]
    /\ wd_local = [now |-> 0, id |-> 0]
    /\ enqueued = <<>>
    /\ posted = [t \in Tasks |-> 0]
    /\ BridgeInit

\* watchdog_register up to taskENTER_CRITICAL: the capacity test and the search
RegisterSearch ==
    /\ \E t \in Registrants :
          /\ task[t].pc = "r_call"
          /\ LET id == FreeSlot(watchdog_tasks)
                 full == num_registered >= WATCHDOG_MAX_TASKS \/ id >= WATCHDOG_MAX_TASKS
             IN /\ task' = [task EXCEPT ![t] = IF full
                                               THEN [pc |-> "r_done",
                                                     id |-> WATCHDOG_INVALID_ID]
                                               ELSE [pc |-> "r_found", id |-> id]]
                /\ events' = <<[type |-> "wd_search", task |-> t, id |-> id]>>
    /\ UNCHANGED <<watchdog_tasks, num_registered, fed_at, alerted_at, tick, last_wake,
                   timeout_callback>>
    /\ RegUnchanged

\* watchdog_register from taskENTER_CRITICAL to its return
RegisterWrite ==
    /\ \E t \in Registrants, timeout_ms \in WdTimeouts :
          /\ task[t].pc = "r_found"
          /\ LET id == task[t].id
             IN /\ watchdog_tasks' = [watchdog_tasks EXCEPT
                                         ![id] = [task_name |-> t, timeout_ms |-> timeout_ms,
                                                  last_feed_tick |-> tick,
                                                  registered |-> TRUE]]
                /\ num_registered' = num_registered + 1
                /\ task' = [task EXCEPT ![t].pc = "r_done"]
                /\ events' = <<[type |-> "wd_register", id |-> id, before |-> WdBefore]>>
                /\ FeedHistory(id, tick)
    /\ UNCHANGED <<tick, last_wake, timeout_callback>>
    /\ RegUnchanged

\* the tick interrupt
RegisterTick ==
    /\ tick < WdMaxTime
    /\ tick' = tick + WdTickStep
    /\ events' = <<>>
    /\ UNCHANGED <<watchdog_tasks, num_registered, fed_at, alerted_at, last_wake,
                   timeout_callback, task>>
    /\ RegUnchanged

NextReg ==
    \/ RegisterSearch
    \/ RegisterWrite
    \/ RegisterTick

SpecReg == InitReg /\ [][NextReg]_vars

(***************************************************************************)
(* SpecBridge: ESP8266_LED_WebServer.ino.  The sketch serves /pattern      *)
(* requests (handlePattern, sendCommandToSTM32, logRequest) and reads the   *)
(* STM32's lines (processSTM32Response); the STM32 is the peer, which owes  *)
(* an acknowledgment for every command it was sent and sends frames of its  *)
(* own.  Lines are sequences of characters.                                 *)
(***************************************************************************)
BridgeMaxRequests == 2    \* /pattern requests served in one run

S_OK == <<"O", "K", ":">>
S_ERROR == <<"E", "R", "R", "O", "R", ":">>
S_OK_Pattern1 == S_OK \o <<"P", "a", "t", "t", "e", "r", "n", "1">>
S_OK_Pattern2 == S_OK \o <<"P", "a", "t", "t", "e", "r", "n", "2">>
S_ERROR_BufferOverflow ==
    S_ERROR \o <<"B", "u", "f", "f", "e", "r", "O", "v", "e", "r", "f", "l", "o", "w">>

\* the characters of the acknowledgment process_led_command sends for LED_CMD:<p>
AckChars(p) ==
    CASE LedCommand(p).ack = "OK:Pattern1" -> S_OK_Pattern1
      [] LedCommand(p).ack = "OK:Pattern2" -> S_OK_Pattern2

BridgePatterns == {"1", "2"}

\* what the STM32 transmits without having been sent a command: its overflow
\* report, its heartbeat probe, its answer to the sketch's PING
UnsolicitedFrames == {S_ERROR_BufferOverflow, S_STM32_PING, S_PONG}

\* String::startsWith
startsWith(str, prefix) ==
    /\ Len(str) >= Len(prefix)
    /\ SubSeq(str, 1, Len(prefix)) = prefix

BridgeState ==
    [rxBuffer |-> rxBuffer, lastAckReceived |-> lastAckReceived,
     stm32Serial |-> stm32Serial, uartConnectionOK |-> uartConnectionOK,
     waitingForEcho |-> waitingForEcho, ev |-> <<>>]

\* processSTM32Response: a complete line in rxBuffer
BridgeLine(b) ==
    IF startsWith(b.rxBuffer, S_STM32_PING)
    THEN [b EXCEPT !.ev = Append(@, [type |-> "esp_tx", frame |-> S_STM32_PONG])]
    ELSE IF startsWith(b.rxBuffer, S_PONG)
    THEN [b EXCEPT !.uartConnectionOK = TRUE, !.waitingForEcho = FALSE]
    ELSE IF startsWith(b.rxBuffer, S_OK) \/ startsWith(b.rxBuffer, S_ERROR)
    THEN [b EXCEPT !.lastAckReceived = b.rxBuffer,
                   !.ev = Append(@, [type |-> "esp_ack", line |-> b.rxBuffer])]
    ELSE b

\* processSTM32Response: every byte that stm32Serial has available
RECURSIVE processSTM32Response(_)
processSTM32Response(b) ==
    IF b.stm32Serial = <<>> THEN b
    ELSE LET c == Head(b.stm32Serial)
             b1 == [b EXCEPT !.stm32Serial = Tail(@)]
         IN IF c = LF \/ c = CR
            THEN IF Len(b1.rxBuffer) > 0
                 THEN processSTM32Response([BridgeLine(b1) EXCEPT !.rxBuffer = <<>>])
                 ELSE processSTM32Response(b1)
            ELSE LET b2 == [b1 EXCEPT !.rxBuffer = Append(@, c)]
                 IN processSTM32Response(IF Len(b2.rxBuffer) > ESP_RX_BUFFER_LIMIT
                                         THEN [b2 EXCEPT !.rxBuffer = <<>>]
                                         ELSE b2)

BridgeCommit(b) ==
    /\ rxBuffer' = b.rxBuffer
    /\ lastAckReceived' = b.lastAckReceived
    /\ stm32Serial' = b.stm32Serial
    /\ uartConnectionOK' = b.uartConnectionOK
    /\ waitingForEcho' = b.waitingForEcho
    /\ events' = b.ev

Stm32Unchanged ==
    /\ UNCHANGED <<peer_frame, peer_pos, peer_sent, uart_stream_buffer, rx_buffer, rx_index,
                   tick, last_ping_sent, last_pong_received, waiting_for_pong,
                   uart_connection_ok, ping_random_seed, next_ping_jitter,
                   buffer_warning_shown, current_pattern, wd_id, watchdog_tasks,
                   num_registered, timeout_callback, last_wake, tx_failures, segment,
                   accepted, consumed, health_log, fed_at, alerted_at>>
    /\ RtosUnchanged

\* loop() with a /pattern?p=<pattern> request waiting: handlePattern calls
\* sendCommandToSTM32, which clears the ACK and writes the command; the STM32
\* will acknowledge it, or give up after its three attempts
HandlePattern ==
    /\ esp.pc = "loop"
    /\ totalRequests < BridgeMaxRequests
    /\ \E pattern \in BridgePatterns, acked \in BOOLEAN :
          /\ esp' = [pc |-> "wait", pattern |-> pattern, startWait |-> millis]
          /\ stm32_tx' = IF acked THEN Append(stm32_tx, AckChars(pattern)) ELSE stm32_tx
          /\ events' = <<[type |-> "esp_tx", frame |-> S_LED_CMD \o <<pattern>>]>>
    /\ lastAckReceived' = <<>>
    /\ UNCHANGED <<rxBuffer, stm32Serial, recentRequests, requestIndex, totalRequests,
                   uartConnectionOK, waitingForEcho, millis>>
    /\ Stm32Unchanged

\* sendCommandToSTM32's wait loop: one more poll and delay(10), or the loop is
\* left and handlePattern calls logRequest
WaitForAck ==
    /\ esp.pc = "wait"
    /\ IF Len(lastAckReceived) = 0 /\ millis - esp.startWait < ACK_WAIT_MS
       THEN /\ BridgeCommit(processSTM32Response(BridgeState))
            /\ millis' = millis + ACK_POLL_DELAY_MS
            /\ UNCHANGED <<recentRequests, requestIndex, totalRequests, esp>>
       ELSE /\ recentRequests' =
                  [recentRequests EXCEPT ![requestIndex] =
                      [endpoint |-> "/pattern", p |-> esp.pattern, ack |-> lastAckReceived]]
            /\ requestIndex' = (requestIndex + 1) % MAX_REQUESTS
            /\ totalRequests' = totalRequests + 1
            /\ esp' = [esp EXCEPT !.pc = "loop"]
            /\ events' = <<[type |-> "log_request", p |-> esp.pattern,
                            ack |-> lastAckReceived]>>
            /\ UNCHANGED <<rxBuffer, lastAckReceived, stm32Serial, uartConnectionOK,
                           waitingForEcho, millis>>
    /\ UNCHANGED stm32_tx
    /\ Stm32Unchanged

\* loop() with no request waiting: processSTM32Response
BridgeLoop ==
    /\ esp.pc = "loop"
    /\ stm32Serial # <<>>
    /\ BridgeCommit(processSTM32Response(BridgeState))
    /\ UNCHANGED <<recentRequests, requestIndex, totalRequests, millis, esp, stm32_tx>>
    /\ Stm32Unchanged

\* the STM32 transmits the next frame it owes, terminated by CR LF
Stm32Transmits ==
    /\ stm32_tx # <<>>
    /\ stm32Serial' = stm32Serial \o Head(stm32_tx) \o <<CR, LF>>
    /\ stm32_tx' = Tail(stm32_tx)
    /\ events' = <<>>
    /\ UNCHANGED <<lastAckReceived, rxBuffer, recentRequests, requestIndex, totalRequests,
                   uartConnectionOK, waitingForEcho, millis, esp>>
    /\ Stm32Unchanged

\* the STM32 has a frame of its own to transmit while the sketch waits for an
\* acknowledgment; it owes no other frame and the sketch has read all it has
\* received
Stm32Unsolicited ==
    /\ esp.pc = "wait"
    /\ stm32_tx = <<>>
    /\ stm32Serial = <<>>
    /\ \E frame \in UnsolicitedFrames : stm32_tx' = <<frame>>
    /\ events' = <<>>
    /\ UNCHANGED <<lastAckReceived, rxBuffer, stm32Serial, recentRequests, requestIndex,
                   totalRequests, uartConnectionOK, waitingForEcho, millis, esp>>
    /\ Stm32Unchanged

NextBridge ==
    \/ HandlePattern
    \/ WaitForAck
    \/ BridgeLoop
    \/ Stm32Transmits
    \/ Stm32Unsolicited

SpecBridge == Init /\ [][NextBridge]_vars

(***************************************************************************)
(* Properties.  events holds what the last step did, in program order.     *)
(***************************************************************************)
EventsOf(type) == {i \in DOMAIN events : events[i].type = type}
LineEvents == EventsOf("line")
TxEvents(frame) == {i \in EventsOf("tx") : events[i].frame = frame}
TxOk(frame) == {i \in TxEvents(frame) : events[i].status = "HAL_OK"}
Posts(msg) == {i \in EventsOf("post") : events[i].msg = msg}
LineDispatched(line) == \E i \in LineEvents : events[i].line = line

CanonicalReply ==
    [line \in {S_LED_CMD \o <<"1">>, S_LED_CMD \o <<"2">>,
               S_LED_CMD \o <<"3">>, S_LED_CMD \o <<"4">>} |->
        CASE line[9] = "1" -> [pattern |-> "LED_PATTERN_1", ack |-> "OK:Pattern1"]
          [] line[9] = "2" -> [pattern |-> "LED_PATTERN_2", ack |-> "OK:Pattern2"]
          [] line[9] = "3" -> [pattern |-> "LED_PATTERN_3", ack |-> "OK:Pattern3"]
          [] line[9] = "4" -> [pattern |-> "LED_PATTERN_NONE", ack |-> "OK:AllOFF"]]

C2_CommandRoundTrip ==
    \A i \in LineEvents :
        events[i].line \in DOMAIN CanonicalReply =>
            LET want == CanonicalReply[events[i].line]
            IN /\ \A k \in EventsOf("tx") : k > i => events[k].frame = want.ack
               /\ \E k \in EventsOf("tx") : k > i
               /\ Cardinality(EventsOf("set_pattern")) = 1
               /\ \A k \in EventsOf("set_pattern") : events[k].pattern = want.pattern
               /\ current_pattern = want.pattern

C2_Witness ==
    /\ LineDispatched(S_LED_CMD \o <<"4">>)
    /\ TxOk("OK:AllOFF") # {}
    /\ current_pattern = "LED_PATTERN_NONE"
    /\ \E i \in EventsOf("rx") : events[i].segment = S_LED_CMD \o <<"4">>

TaskStepped == EventsOf("feed") # {}

\* the health messages posted so far alternate, the first being an alert
Alternates(log) ==
    \A i \in DOMAIN log : log[i] = IF i % 2 = 1 THEN "alert" ELSE "restored"

\* C4: uart_connection_ok goes false -> true only in a step that processes
\* STM32_PONG, and true -> false only in a step where the ping timeout fires; the
\* alert is posted exactly when a timeout finds the link healthy, the recovery
\* message exactly when STM32_PONG finds it unhealthy, and the two alternate,
\* starting with an alert.
C4_HealthEdge ==
    /\ (~uart_connection_ok /\ uart_connection_ok') => LineDispatched(S_STM32_PONG)'
    /\ (uart_connection_ok /\ ~uart_connection_ok') => (EventsOf("timeout") # {})'
    /\ TaskStepped' =>
          /\ Cardinality(Posts(MSG_ALERT))' =
                IF (EventsOf("timeout") # {})' /\ uart_connection_ok THEN 1 ELSE 0
          /\ Cardinality(Posts(MSG_RESTORED))' =
                IF LineDispatched(S_STM32_PONG)'
                   /\ (~uart_connection_ok \/ (Posts(MSG_ALERT) # {})')
                THEN 1 ELSE 0

C4_EdgeTriggered == [][C4_HealthEdge]_vars /\ []Alternates(health_log)

C4_Witness == health_log = <<"alert", "restored", "alert">>

\* C5: a task iteration that starts with a probe outstanding for at least the
\* 1000 ms response timeout runs the timeout branch: waiting_for_pong is cleared
\* whatever the health value, and the link goes unhealthy, with one alert posted,
\* if and only if it was healthy.
TimedOut ==
    /\ waiting_for_pong
    /\ tick - last_ping_sent >= pdMS_TO_TICKS(STM32_PING_TIMEOUT_MS)

C5_TimeoutStep ==
    (TimedOut /\ TaskStepped') =>
        /\ (EventsOf("timeout") # {})'
        /\ ~waiting_for_pong'
        /\ Cardinality(Posts(MSG_ALERT))' = IF uart_connection_ok THEN 1 ELSE 0
        /\ ~LineDispatched(S_STM32_PONG)' => ~uart_connection_ok'

C5_TimeoutClearsAwaiting == [][C5_TimeoutStep]_vars

C5_Witness ==
    /\ EventsOf("timeout") # {}
    /\ Posts(MSG_ALERT) = {}
    /\ ~waiting_for_pong
    /\ ~uart_connection_ok

\* C6 (as claimed): a received line PONG marks the link healthy again.
C6_PongLineRestores == LineDispatched(S_PONG) => uart_connection_ok

\* C6 (amended): the reply to the probe is STM32_PONG.  A step that dispatches the
\* line STM32_PONG leaves the link healthy and no probe outstanding, and posts the
\* recovery message once if the link was unhealthy and not at all otherwise; a
\* step that dispatches the line PONG never restores the link.
C6_ReplyStep ==
    /\ LineDispatched(S_STM32_PONG)' =>
          /\ uart_connection_ok'
          /\ ~waiting_for_pong'
          /\ Cardinality(Posts(MSG_RESTORED))' =
                IF ~uart_connection_ok \/ (Posts(MSG_ALERT) # {})' THEN 1 ELSE 0
    /\ LineDispatched(S_PONG)' =>
          /\ (Posts(MSG_RESTORED) = {})'
          /\ ~uart_connection_ok => ~uart_connection_ok'

C6_Stm32PongRestores == [][C6_ReplyStep]_vars

C6_Witness ==
    /\ LineDispatched(S_STM32_PONG)
    /\ health_log = <<"alert", "restored">>
    /\ uart_connection_ok

\* C7: every retried send makes between 1 and 3 transmit attempts, none after a
\* success, exactly 3 when all fail, and delays 10 ms after each failed attempt.
RetriedFrames ==
    {"PONG", "STM32_PING", "OK:Pattern1", "OK:Pattern2", "OK:Pattern3", "OK:AllOFF",
     "ERROR:InvalidPattern"}

Sends(frame) ==
    CASE frame = "PONG" -> \E i \in LineEvents : StrNCmpEq(events[i].line, S_PING)
      [] frame = "STM32_PING" -> EventsOf("probe") # {}
      [] OTHER -> \E i \in LineEvents :
                     /\ ~StrNCmpEq(events[i].line, S_PING)
                     /\ ~StrNCmpEq(events[i].line, S_STM32_PONG)
                     /\ StrNCmpEq(events[i].line, S_LED_CMD)
                     /\ LedCommand(CharAt(events[i].line, 8)).ack = frame

C7_RetryBound ==
    \A frame \in RetriedFrames :
        LET tx == TxEvents(frame)
        IN /\ Sends(frame) <=> tx # {}
           /\ Cardinality(tx) <= MAX_RETRIES
           /\ TxOk(frame) = {} /\ tx # {} => Cardinality(tx) = MAX_RETRIES
           /\ \A i \in tx :
                 IF events[i].status = "HAL_OK"
                 THEN \A k \in tx : k <= i
                 ELSE /\ i < Len(events)
                      /\ events[i + 1] = EvDelay(RETRY_DELAY_MS)

C7_Witness ==
    /\ Cardinality(TxEvents("STM32_PING")) = 3
    /\ Cardinality(TxOk("STM32_PING")) = 1
    /\ waiting_for_pong

\* C8: when all 3 attempts of a send fail, exactly one failure line is posted,
\* nothing is recorded as sent, and the iteration completes as usual: the
\* watchdog is fed and the line buffer is reset for the next line.
AllFailed(frame) == TxEvents(frame) # {} /\ TxOk(frame) = {}
AckFrames == RetriedFrames \ {"PONG", "STM32_PING"}

C8_FailedSend ==
    /\ TaskStepped' =>
          /\ Cardinality(Posts(MSG_PONG_FAILED))' = IF AllFailed("PONG")' THEN 1 ELSE 0
          /\ Cardinality(Posts(MSG_PING_FAILED))' = IF AllFailed("STM32_PING")' THEN 1 ELSE 0
          /\ Cardinality(Posts(MSG_ACK_FAILED))' =
                IF \E f \in AckFrames : AllFailed(f)' THEN 1 ELSE 0
          /\ AllFailed("PONG")' => (Posts(MSG_PONG_SENT) = {})'
          /\ AllFailed("STM32_PING")' =>
                /\ (Posts(MSG_PING_SENT) = {})'
                /\ last_ping_sent' = last_ping_sent
                /\ next_ping_jitter' = next_ping_jitter \/ last_ping_sent = 0
    /\ (\E f \in RetriedFrames : AllFailed(f)') =>
          /\ TaskStepped'
          /\ LineEvents' # {} => rx_index' = 0

C9_ByteChannelFifo == accepted = consumed \o uart_stream_buffer

C9_Witness ==
    /\ Len(consumed) >= 3
    /\ Len(uart_stream_buffer) >= 3
    /\ \E i \in DOMAIN accepted : accepted[i] # accepted[1]

\* C10: feed on a registered id sets that entry's last_feed_tick to the current
\* tick and changes nothing else; feed on an id beyond the table, on
\* WATCHDOG_INVALID_ID or on an unregistered slot changes nothing.
C10_FeedEffect ==
    \A i \in EventsOf("wd_feed") :
        LET id == events[i].id
            old == events[i].before
        IN /\ num_registered = old.n
           /\ IF id \in WatchdogIds /\ old.tbl[id].registered
              THEN /\ tick - watchdog_tasks[id].last_feed_tick = 0
                   /\ watchdog_tasks[id].task_name = old.tbl[id].task_name
                   /\ watchdog_tasks[id].timeout_ms = old.tbl[id].timeout_ms
                   /\ watchdog_tasks[id].registered
                   /\ \A j \in WatchdogIds \ {id} : watchdog_tasks[j] = old.tbl[j]
              ELSE watchdog_tasks = old.tbl

C10_Witness ==
    \E i \in EventsOf("wd_feed") :
        LET id == events[i].id
            old == events[i].before
        IN /\ id \in WatchdogIds
           /\ old.tbl[id].registered
           /\ old.tbl[id].last_feed_tick < tick
           /\ old.n = 2

\* C11: a register call made with fewer than 3 entries registered takes the first
\* free slot and returns its id, in 0..2; a register call made with 3 entries
\* registered returns WATCHDOG_INVALID_ID and changes neither table nor count.
C11_RegisterCapacity ==
    \A i \in EventsOf("wd_register") :
        LET id == events[i].id
            old == events[i].before
        IN IF old.n >= WATCHDOG_MAX_TASKS
           THEN /\ id = WATCHDOG_INVALID_ID
                /\ watchdog_tasks = old.tbl
                /\ num_registered = old.n
           ELSE /\ id \in WatchdogIds
                /\ id = old.n
                /\ ~old.tbl[id].registered
                /\ watchdog_tasks[id].registered
                /\ \A j \in WatchdogIds \ {id} : watchdog_tasks[j] = old.tbl[j]
                /\ num_registered = old.n + 1

C11_Witness ==
    \E i \in EventsOf("wd_register") :
        /\ events[i].before.n = WATCHDOG_MAX_TASKS
        /\ events[i].id = WATCHDOG_INVALID_ID
        /\ \A j \in WatchdogIds : watchdog_tasks[j].registered

\* the alerts a pass of the monitor task raised for entry id
AlertsFor(id) ==
    {k \in DOMAIN events : events[k].type \in {"wd_alert", "wd_callback"} /\ events[k].id = id}

Last(seq) == seq[Len(seq)]

\* C12: a pass of the monitor task raises exactly one alert for every registered
\* entry with now - last_feed_tick > timeout_ms and sets that entry's
\* last_feed_tick to now; it raises none for the other entries and changes nothing
\* else (no entry is deregistered).  Consecutive alerts for an entry that stays
\* silent are therefore more than its timeout apart.
C12_AlertAndReset ==
    /\ \A i \in EventsOf("wd_check") :
          LET old == events[i].before
          IN /\ num_registered = old.n
             /\ \A id \in WatchdogIds :
                   LET e == old.tbl[id]
                       hung == e.registered /\ tick - e.last_feed_tick > e.timeout_ms
                   IN /\ Cardinality(AlertsFor(id)) = IF hung THEN 1 ELSE 0
                      /\ watchdog_tasks[id] =
                            IF hung THEN [e EXCEPT !.last_feed_tick = tick] ELSE e
    /\ \A id \in WatchdogIds :
          \A k \in 1..(Len(alerted_at[id]) - 1) :
              alerted_at[id][k + 1] - alerted_at[id][k] > watchdog_tasks[id].timeout_ms

C12_Witness ==
    /\ EventsOf("wd_check") # {}
    /\ \E id \in WatchdogIds :
          /\ AlertsFor(id) # {}
          /\ Len(alerted_at[id]) = 2
          /\ alerted_at[id][2] - alerted_at[id][1] =
                2 * pdMS_TO_TICKS(WATCHDOG_CHECK_PERIOD_MS)
          /\ \E j \in WatchdogIds \ {id} :
                watchdog_tasks[j].registered /\ AlertsFor(j) = {}

\* C13 (as claimed): once more than its timeout has passed since an entry's last
\* feed, every pass of the monitor task raises an alert for it until it is fed.
C13_AlertEveryPeriod ==
    \A id \in WatchdogIds :
        (/\ EventsOf("wd_check") # {}
         /\ watchdog_tasks[id].registered
         /\ tick - fed_at[id] > watchdog_tasks[id].timeout_ms)
        => Cardinality(AlertsFor(id)) = 1

\* C13 (amended): for an entry that is not fed, a pass raises one alert when more
\* than the timeout has passed since the last feed or, after an alert, since the
\* previous alert, and none otherwise.
C13_AlertEveryTimeout ==
    \A id \in WatchdogIds :
        (EventsOf("wd_check") # {} /\ watchdog_tasks[id].registered) =>
            LET earlier == SelectSeq(alerted_at[id], LAMBDA a : a < tick)
                since == IF earlier = <<>> THEN fed_at[id] ELSE Last(earlier)
                due == tick - since > watchdog_tasks[id].timeout_ms
            IN /\ Cardinality(AlertsFor(id)) = IF due THEN 1 ELSE 0
               /\ Len(alerted_at[id]) = Len(earlier) + IF due THEN 1 ELSE 0

C13_Witness ==
    /\ EventsOf("wd_check") # {}
    /\ \E id \in WatchdogIds :
          /\ watchdog_tasks[id].registered
          /\ watchdog_tasks[id].timeout_ms > WATCHDOG_CHECK_PERIOD_MS
          /\ Len(alerted_at[id]) = 1
          /\ tick - alerted_at[id][1] = pdMS_TO_TICKS(WATCHDOG_CHECK_PERIOD_MS)
          /\ AlertsFor(id) = {}

\* C14: for an entry last fed at t, no alert is raised at a check with
\* now - t <= timeout, the first check with now - t > timeout raises one, and that
\* is no later than timeout + one check period after t.
C14_DetectionBound ==
    \A id \in WatchdogIds :
        watchdog_tasks[id].registered =>
            LET t == fed_at[id]
                timeout == pdMS_TO_TICKS(watchdog_tasks[id].timeout_ms)
            IN /\ \A k \in DOMAIN alerted_at[id] : alerted_at[id][k] - t > timeout
               /\ alerted_at[id] = <<>> => last_wake - t <= timeout
               /\ alerted_at[id] # <<>> =>
                     alerted_at[id][1] - t
                        <= timeout + pdMS_TO_TICKS(WATCHDOG_CHECK_PERIOD_MS)

C14_Witness ==
    \E id \in WatchdogIds :
        /\ watchdog_tasks[id].registered
        /\ fed_at[id] > 0
        /\ Len(alerted_at[id]) = 1
        /\ alerted_at[id][1] - fed_at[id] =
              pdMS_TO_TICKS(watchdog_tasks[id].timeout_ms + WATCHDOG_CHECK_PERIOD_MS)

PrintReturns == EventsOf("print_return")

\* C16: every call of print_message returns pdPASS or errQUEUE_FULL after at
\* most 100 ms in xQueueSend: with pdPASS exactly one copy of the message has
\* been added at the back of the queue, with errQUEUE_FULL the queue was full
\* for the whole 100 ms and is unchanged.  No task stays in the call beyond the
\* 100 ms, and the queue never holds more than PRINT_QUEUE_DEPTH messages.
C16_PostReturns ==
    /\ Len(print_queue) <= PRINT_QUEUE_DEPTH
    /\ \A t \in Tasks :
          task[t].pc \in {"wd_print", "c_print"} =>
              tick - task[t].since <= pdMS_TO_TICKS(PRINT_ENQUEUE_TIMEOUT_MS)
    /\ Cardinality(PrintReturns) <= 1
    /\ \A k \in PrintReturns :
          LET e == events[k]
          IN /\ e.waited <= pdMS_TO_TICKS(PRINT_ENQUEUE_TIMEOUT_MS)
             /\ e.result \in {"pdPASS", "errQUEUE_FULL"}
             /\ e.result = "pdPASS" => print_queue = Append(e.before, e.msg)
             /\ e.result = "errQUEUE_FULL" =>
                    /\ print_queue = e.before
                    /\ Len(e.before) = PRINT_QUEUE_DEPTH
                    /\ e.waited = pdMS_TO_TICKS(PRINT_ENQUEUE_TIMEOUT_MS)

\* a call that found the queue full, waited the 100 ms and dropped its message
C16_Witness ==
    \E k \in PrintReturns :
        /\ events[k].result = "errQUEUE_FULL"
        /\ events[k].waited = pdMS_TO_TICKS(PRINT_ENQUEUE_TIMEOUT_MS)
        /\ Len(print_queue) = PRINT_QUEUE_DEPTH

\* the message the print task is transmitting
InFlight == IF task["Print_Task"].pc = "p_transmit" THEN <<message_buffer>> ELSE <<>>

\* C17: the messages written to UART3, the one being written and the queued
\* ones are, in this order, exactly the messages that were enqueued, in the
\* order of their enqueueing: each is written once, in queue order, and the
\* messages of one task come out in the order the task posted them (a dropped
\* message is missing, nothing is moved).
C17_LogOrder ==
    /\ uart3_out \o InFlight \o print_queue = enqueued
    /\ \A i, j \in DOMAIN uart3_out :
          i < j /\ uart3_out[i].src = uart3_out[j].src => uart3_out[i].n < uart3_out[j].n

\* messages of both producers have been written, one of the watchdog task just
\* now while further messages wait in the queue
C17_Witness ==
    /\ \E i, j \in DOMAIN uart3_out :
          /\ uart3_out[i].src = "ESP8266_Comm"
          /\ uart3_out[j].src = "Watchdog"
    /\ Len(uart3_out) >= 3
    /\ \E k \in EventsOf("uart3") : events[k].msg.src = "Watchdog" /\ print_queue # <<>>

\* C18: every call in which a task waits or polls has a finite timeout, and the
\* task leaves the call no later than the tick at which that timeout runs out.
C18_FiniteTimeouts ==
    \A t \in Tasks :
        task[t].pc \in WaitingPcs \cup PollingPcs =>
            /\ task[t].timeout # HAL_MAX_DELAY
            /\ tick - task[t].since <= pdMS_TO_TICKS(task[t].timeout)

\* the pattern each OK frame announces
AckPattern ==
    [ack \in {"OK:Pattern1", "OK:Pattern2", "OK:Pattern3", "OK:AllOFF"} |->
        CASE ack = "OK:Pattern1" -> "LED_PATTERN_1"
          [] ack = "OK:Pattern2" -> "LED_PATTERN_2"
          [] ack = "OK:Pattern3" -> "LED_PATTERN_3"
          [] ack = "OK:AllOFF" -> "LED_PATTERN_NONE"]

\* C19: every transmit attempt of an OK frame, the first included, comes after
\* the call of led_effects_set_pattern for the pattern the frame announces, and
\* no other pattern is set between that call and the attempt or after it: the
\* pattern in force during each attempt is the one in the frame.
C19_ActionBeforeReply ==
    \A k \in EventsOf("tx") :
        events[k].frame \in DOMAIN AckPattern =>
            /\ \E j \in EventsOf("set_pattern") :
                  /\ j < k
                  /\ events[j].pattern = AckPattern[events[k].frame]
                  /\ \A i \in EventsOf("set_pattern") : i <= j
            /\ current_pattern = AckPattern[events[k].frame]

\* a command whose OK frame went out at the second attempt, after the pattern
\* had been set
C19_Witness ==
    \E j \in EventsOf("set_pattern") : \E k1, k2 \in TxEvents("OK:Pattern3") :
        /\ j < k1
        /\ k1 < k2
        /\ events[k1].status # "HAL_OK"
        /\ events[k2].status = "HAL_OK"
        /\ current_pattern = "LED_PATTERN_3"

\* what the peer and the LEDs get to see of a dispatch: the transmit attempts,
\* the retry delays and the pattern changes, in order, with the resulting
\* pattern, the time taken and the failed attempts
IsOutput(e) == e.type \in {"tx", "delay", "set_pattern"}
Outputs(c) ==
    [ev |-> SelectSeq(c.ev, IsOutput), current_pattern |-> c.current_pattern,
     elapsed |-> c.elapsed, failed |-> c.failed]

\* the line the next terminator will hand to process_led_command
PendingLine == CStr(SubSeq(rx_buffer, 1, rx_index))

\* C20: whatever line the task has assembled, process_led_command on the task's
\* state and on the state that differs from it only in uart_connection_ok gives
\* the same pattern changes, the same transmit attempts and the same retry
\* delays for every outcome of the transmits; for a line other than STM32_PONG
\* it leaves uart_connection_ok as it found it.
C20_HealthAdvisory ==
    rx_index > 0 =>
        \A results \in TxResults :
            LET c == TaskState
                d == [c EXCEPT !.uart_connection_ok = ~@]
                rc == process_led_command(c, PendingLine, results, tick)
                rd == process_led_command(d, PendingLine, results, tick)
            IN /\ Outputs(rc) = Outputs(rd)
               /\ ~StrNCmpEq(PendingLine, S_STM32_PONG) =>
                      /\ rc.uart_connection_ok = c.uart_connection_ok
                      /\ rd.uart_connection_ok = d.uart_connection_ok

\* a command carried out, and acknowledged after a failed attempt, while the
\* link is marked broken
C20_Witness ==
    /\ ~uart_connection_ok
    /\ LineDispatched(S_LED_CMD \o <<"1">>)
    /\ EventsOf("set_pattern") # {}
    /\ TxOk("OK:Pattern1") # {}
    /\ \E k \in TxEvents("OK:Pattern1") : events[k].status # "HAL_OK"

\* the heartbeat statics of the initiator side
Initiator(c) ==
    [waiting_for_pong |-> c.waiting_for_pong, uart_connection_ok |-> c.uart_connection_ok,
     last_ping_sent |-> c.last_ping_sent, last_pong_received |-> c.last_pong_received,
     ping_random_seed |-> c.ping_random_seed, next_ping_jitter |-> c.next_ping_jitter]

\* C21: whenever the assembled line starts with PING, in whatever state the
\* heartbeat is, process_led_command makes exactly one retried send of PONG (its
\* attempts and delays and nothing else on the wire), sets no pattern, and
\* leaves waiting_for_pong, uart_connection_ok, last_ping_sent and the jitter
\* as they were.
C21_ResponderIndependent ==
    (rx_index > 0 /\ StrNCmpEq(PendingLine, S_PING)) =>
        \A results \in TxResults :
            LET c == TaskState
                r == process_led_command(c, PendingLine, results, tick)
            IN /\ SelectSeq(r.ev, IsOutput) = SendWithRetry("PONG", results).ev
               /\ Initiator(r) = Initiator(c)
               /\ r.current_pattern = c.current_pattern

\* a PING answered with PONG while our own probe is waiting for its STM32_PONG
C21_Witness ==
    /\ \E i \in LineEvents : StrNCmpEq(events[i].line, S_PING)
    /\ TxOk("PONG") # {}
    /\ waiting_for_pong
    /\ last_ping_sent > 0

\* C23: an iteration that makes a STM32_PING burst does so at least
\* STM32_PING_INTERVAL_MS after the tick recorded in last_ping_sent, and it
\* records its own tick in last_ping_sent and sets waiting_for_pong (which only
\* a STM32_PONG read in the same iteration clears again), whether the burst
\* succeeded or failed: bursts are at least the base interval apart.
C23_ProbeSpacing ==
    [][(EventsOf("probe") # {})' =>
          /\ tick - last_ping_sent >= pdMS_TO_TICKS(STM32_PING_INTERVAL_MS)
          /\ last_ping_sent' = tick
          /\ \/ waiting_for_pong'
             \/ (\E i \in LineEvents : StrNCmpEq(events[i].line, S_STM32_PONG))']_vars

\* (seed * 1664525 + 1013904223) mod 2^32 from seed 0, and what % 2000 gives
LcgSequence ==
    << [seed |-> <<15470, 62303>>, value |-> 223],     \* 1013904223
       [seed |-> <<18256, 10546>>, value |-> 1762],    \* 1196435762
       [seed |-> <<53708, 63209>>, value |-> 697],     \* 3519870697
       [seed |-> <<43769, 21300>>, value |-> 484] >>   \* 2868466484

LcgEdges ==
    /\ \A i \in 1..Len(LcgSequence) :
          get_random_jitter(IF i = 1 THEN ToSeed(0) ELSE LcgSequence[i - 1].seed,
                            STM32_PING_JITTER_MS) = LcgSequence[i]
    /\ LcgNext(<<0, 65535>>) = <<41570, 36178>>        \* 65535 -> 2724367698
    /\ LcgNext(<<1, 0>>) = <<41595, 62303>>            \* 65536 -> 2726032223
    /\ LcgNext(<<32768, 0>>) = <<48238, 62303>>        \* 2^31 -> 3161387871
    /\ LcgNext(<<65535, 65535>>) = <<15445, 36178>>    \* 2^32 - 1 -> 1012239698

JitterDrawn == ping_random_seed' # ping_random_seed

\* C24: get_random_jitter replaces the seed by seed * 1664525 + 1013904223
\* mod 2^32 and returns the new seed % 2000, so next_ping_jitter is always in
\* 0..1999; an iteration makes a probe burst when and only when at least
\* 10000 + next_ping_jitter ms have passed since last_ping_sent, hence never
\* before 10000 ms and always by 12000 ms; and every iteration that makes a
\* probe burst draws a new jitter value.
C24_JitterRange ==
    [][/\ LcgEdges
       /\ next_ping_jitter' \in 0..(STM32_PING_JITTER_MS - 1)
       /\ JitterDrawn =>
              /\ ping_random_seed' \in {LcgNext(ping_random_seed),
                                        LcgNext(LcgNext(ping_random_seed))}
              /\ next_ping_jitter' = SeedMod(ping_random_seed', STM32_PING_JITTER_MS)
       /\ (EventsOf("probe") # {})' =>
              tick - last_ping_sent >= pdMS_TO_TICKS(STM32_PING_INTERVAL_MS)
       /\ (EventsOf("feed") # {} /\ EventsOf("probe") = {})' =>
              tick - last_ping_sent
                 < pdMS_TO_TICKS(STM32_PING_INTERVAL_MS + STM32_PING_JITTER_MS)
       /\ (EventsOf("probe") # {})' => JitterDrawn]_vars

IsrEvents == EventsOf("isr")

WarningPosted == Posts(MSG_WARNING) # {}

\* C26: the warning is posted only by an iteration that has read a byte and
\* found more than HIGH_WATER_MARK bytes left in the stream buffer, only while
\* buffer_warning_shown is false, which it then sets for good: at most once in
\* an execution.  The iteration handles its byte as it would have without the
\* warning.
C26_WarningOnce ==
    [][/\ buffer_warning_shown => (buffer_warning_shown' /\ ~WarningPosted')
       /\ WarningPosted' =>
              /\ Cardinality(Posts(MSG_WARNING))' = 1
              /\ (EventsOf("rx") # {})'
              /\ Len(uart_stream_buffer') > HIGH_WATER_MARK
              /\ buffer_warning_shown'
       /\ uart_stream_buffer # <<>> =>
              \A results \in TxResults, ovf_status \in HAL_Status :
                  LET rcv == xStreamBufferReceive(uart_stream_buffer)
                      c == TaskState
                      plain == ProcessChar(c, rcv.received_char, results, ovf_status, tick)
                      warned == ProcessChar(WarningSection(c, Len(rcv.buf)),
                                            rcv.received_char, results, ovf_status, tick)
                      NotWarning(e) == e # EvPost(MSG_WARNING)
                  IN /\ SelectSeq(warned.ev, NotWarning) = plain.ev
                     /\ [warned EXCEPT !.ev = <<>>, !.buffer_warning_shown = FALSE]
                           = [plain EXCEPT !.ev = <<>>, !.buffer_warning_shown = FALSE]]_vars

\* the warning has been posted and the task has gone on reading bytes
C26_Witness ==
    /\ buffer_warning_shown
    /\ ~WarningPosted
    /\ EventsOf("rx") # {}
    /\ Len(uart_stream_buffer) > HIGH_WATER_MARK

\* the task reads a byte in this step
ByteRead == consumed' # consumed

C28_IdempotentTerminators ==
    [][(ByteRead /\ IsTerminator(Head(uart_stream_buffer))) =>
          IF rx_index = 0
          THEN /\ \A results \in TxResults, ovf_status \in HAL_Status :
                     ProcessChar(TaskState, Head(uart_stream_buffer), results,
                                 ovf_status, tick) = TaskState
               /\ (LineEvents = {})'
               /\ (EventsOf("tx") \ TxEvents("STM32_PING") = {})'
               /\ rx_index' = 0
               /\ rx_buffer' = rx_buffer
               /\ current_pattern' = current_pattern
          ELSE /\ Cardinality(LineEvents)' = 1
               /\ rx_index' = 0]_vars

\* PING CR LF has been read: the CR dispatched the line, the LF nothing
C28_Witness ==
    /\ Len(consumed) >= 6
    /\ SubSeq(consumed, Len(consumed) - 5, Len(consumed)) = S_PING \o <<CR, LF>>
    /\ LineEvents = {}
    /\ EventsOf("rx") # {}
    /\ rx_index = 0

Unrecognised(line) ==
    /\ ~StrNCmpEq(line, S_PING)
    /\ ~StrNCmpEq(line, S_STM32_PONG)
    /\ ~StrNCmpEq(line, S_LED_CMD)

\* C29: when the buffered line starts with none of PING, STM32_PONG and LED_CMD:
\* (compared byte for byte, so case matters), dispatching it yields the task's
\* state with the record of the line and the one diagnostic log added, and
\* nothing else: no transmission, no pattern change, no delay, no failure
\* counted and the heartbeat state as it was, whatever the transmitter would
\* have returned.
C29_UnrecognisedInert ==
    (rx_index > 0 /\ Unrecognised(PendingLine)) =>
        \A results \in TxResults :
            LET c == TaskState
                r == process_led_command(c, PendingLine, results, tick)
            IN /\ r = Emit(c, <<[type |-> "line", line |-> PendingLine],
                                EvPost(MSG_RECEIVED)>>)
               /\ SelectSeq(r.ev, IsOutput) = SelectSeq(c.ev, IsOutput)
               /\ Initiator(r) = Initiator(c)
               /\ r.current_pattern = c.current_pattern

\* the lower-case line "ping" has been dispatched: logged, and nothing sent
C29_Witness ==
    /\ LineDispatched(S_ping)
    /\ \E i \in DOMAIN events : events[i] = EvPost(MSG_RECEIVED)
    /\ EventsOf("tx") = {}
    /\ EventsOf("set_pattern") = {}
    /\ rx_index = 0

\* the step is a watchdog_feed(id) call
FedBy(id) == \E i \in DOMAIN events' : events'[i].type = "wd_feed" /\ events'[i].id = id
\* watchdog_task has reported entry id, in this step or since the entry was last fed
ReportedBy(id) == alerted_at'[id] # <<>>

\* C30: an entry that is registered stays registered over every step, with the
\* same task_name and timeout_ms; its last_feed_tick changes only in a step
\* that is a watchdog_feed of that entry or a pass of watchdog_task that
\* reported it.  The number of registered entries never goes down.
C30_SlotsPermanent ==
    [][/\ \A id \in WatchdogIds :
             watchdog_tasks[id].registered =>
                /\ watchdog_tasks'[id].registered
                /\ watchdog_tasks'[id].task_name = watchdog_tasks[id].task_name
                /\ watchdog_tasks'[id].timeout_ms = watchdog_tasks[id].timeout_ms
                /\ watchdog_tasks'[id].last_feed_tick # watchdog_tasks[id].last_feed_tick =>
                      FedBy(id) \/ ReportedBy(id)
       /\ num_registered' >= num_registered]_vars

\* the table is full; one entry has just been reported and had its
\* last_feed_tick reset by the pass, another was fed at an earlier tick
C30_Witness ==
    /\ num_registered = WATCHDOG_MAX_TASKS
    /\ \E a, b \in WatchdogIds :
          /\ a # b
          /\ watchdog_tasks[a].registered
          /\ AlertsFor(a) # {}
          /\ watchdog_tasks[a].last_feed_tick = tick
          /\ fed_at[a] < tick
          /\ watchdog_tasks[b].registered
          /\ AlertsFor(b) = {}
          /\ watchdog_tasks[b].last_feed_tick = fed_at[b]
          /\ fed_at[b] > 0

\* C22 (as claimed): whenever the acknowledgment of a command has been
\* transmitted, or its send has been given up and is reported Failed, at most
\* 100 ms have passed since the terminator of the command line was read.
C22_AckLatency ==
    \A i \in EventsOf("ack_done") :
        events[i].at - events[i].read_at <= pdMS_TO_TICKS(ACK_LATENCY_TARGET_MS)

WdAlertIn(evs, id) ==
    {k \in DOMAIN evs : evs[k].type \in {"wd_alert", "wd_callback"} /\ evs[k].id = id}

\* C31: when a pass of watchdog_task finds an entry over its timeout, then with a
\* callback set the callback is invoked once with the entry's id, task_name and
\* elapsed milliseconds, print_message is not called and last_feed_tick is set
\* to the pass's now in the same step; with no callback the alert is handed to
\* print_message exactly once, and last_feed_tick is set to now when that call
\* returns.  The watchdog task calls print_message for nothing else.
C31_AlertRouting ==
    [][/\ \A id \in WatchdogIds :
             WdAlertIn(events', id) # {} =>
                /\ id = wd_local.id
                /\ Cardinality(WdAlertIn(events', id)) = 1
                /\ \A k \in WdAlertIn(events', id) :
                      /\ events'[k].type = IF timeout_callback THEN "wd_callback"
                                           ELSE "wd_alert"
                      /\ events'[k].task_name = watchdog_tasks[id].task_name
                      /\ events'[k].elapsed_ms =
                            pdTICKS_TO_MS(wd_local.now - watchdog_tasks[id].last_feed_tick)
                      /\ events'[k].elapsed_ms > watchdog_tasks[id].timeout_ms
                /\ IF timeout_callback
                   THEN /\ posted' = posted
                        /\ print_queue' = print_queue
                        /\ watchdog_tasks'[id].last_feed_tick = wd_local.now
                   ELSE \/ /\ posted'["Watchdog"] = posted["Watchdog"] + 1
                           /\ watchdog_tasks'[id].last_feed_tick = wd_local.now
                        \/ /\ task'["Watchdog"].pc = "wd_print"
                           /\ posted' = posted
                           /\ watchdog_tasks' = watchdog_tasks
       /\ (task["Watchdog"].pc = "wd_print" /\ task'["Watchdog"].pc # "wd_print") =>
             /\ posted'["Watchdog"] = posted["Watchdog"] + 1
             /\ watchdog_tasks'[wd_local.id].last_feed_tick = wd_local.now
       /\ posted'["Watchdog"] # posted["Watchdog"] =>
             /\ ~timeout_callback
             /\ posted'["Watchdog"] = posted["Watchdog"] + 1
             /\ \/ WdAlertIn(events', wd_local.id) # {}
                \/ task["Watchdog"].pc = "wd_print"]_vars

\* a callback is set and has just been invoked for an entry: nothing was posted
\* by the watchdog task and the entry's last_feed_tick is the pass's now
C31_Witness ==
    /\ timeout_callback
    /\ \E id \in WatchdogIds :
          /\ WdAlertIn(events, id) # {}
          /\ \A k \in WdAlertIn(events, id) : events[k].type = "wd_callback"
          /\ watchdog_tasks[id].last_feed_tick = tick
    /\ posted["Watchdog"] = 0
    /\ \A i \in DOMAIN enqueued : enqueued[i].src # "Watchdog"

FeedsIn(evs, id) == {k \in DOMAIN evs : evs[k].type = "wd_feed" /\ evs[k].id = id}

\* the step in which the communication task's xStreamBufferReceive returns,
\* after its 100 ms or at once with a byte
CommReceiveReturns ==
    \/ task["ESP8266_Comm"].pc = "c_receive" /\ task'["ESP8266_Comm"].pc # "c_receive"
    \/ task["ESP8266_Comm"].pc = "c_top" /\ "step" \in DOMAIN task'["ESP8266_Comm"]

\* the step in which the print task ends a loop iteration: xQueueReceive timed
\* out, or the transmission of the message it returned is done
PrintIterationEnds ==
    /\ task["Print_Task"].pc \in {"p_receive", "p_transmit"}
    /\ task'["Print_Task"].pc = "p_receive"
    /\ task'["Print_Task"] # task["Print_Task"]

\* C32: the communication task calls watchdog_feed with its id exactly once in
\* every loop iteration, in the step its receive returns, with a byte or on
\* timeout, and in no other step; the print task calls watchdog_feed with its
\* id exactly once at the end of every loop iteration, after a transmission or
\* after a receive timeout, and in no other step.  The feed stores the current
\* tick in the task's own entry.
C32_FeedCadence ==
    [][/\ Cardinality(FeedsIn(events', wd_id)) = IF CommReceiveReturns THEN 1 ELSE 0
       /\ Cardinality(FeedsIn(events', PrintWdId)) = IF PrintIterationEnds THEN 1 ELSE 0
       /\ CommReceiveReturns =>
             /\ watchdog_tasks'[wd_id].last_feed_tick = tick
             /\ fed_at'[wd_id] = tick
       /\ PrintIterationEnds =>
             /\ watchdog_tasks'[PrintWdId].last_feed_tick = tick
             /\ fed_at'[PrintWdId] = tick]_vars

\* the communication task was fed on reading a command's terminator, after
\* iterations that timed out, and the print task has just been fed after
\* transmitting the line's log message
C32_Witness ==
    /\ tick > 0
    /\ InDispatch
    /\ task["ESP8266_Comm"].read_at = tick
    /\ fed_at[wd_id] = tick
    /\ watchdog_tasks[wd_id].last_feed_tick = tick
    /\ EventsOf("uart3") # {}
    /\ FeedsIn(events, PrintWdId) # {}
    /\ watchdog_tasks[PrintWdId].last_feed_tick = tick

\* C33: a message is appended to the debug output only by a step of the print
\* task, which has the processor and is in its HAL_UART_Transmit on UART3; the
\* message is the one it took from the print queue, where a print_message call
\* had put it; no other task moves in that step, and no task but the print
\* task is ever inside a UART3 transmission, so there is never more than one.
C33_DebugOutputOwner ==
    [][/\ uart3_out' # uart3_out =>
             /\ Running("Print_Task")
             /\ task["Print_Task"].pc = "p_transmit"
             /\ task'["Print_Task"].pc = "p_receive"
             /\ uart3_out' = Append(uart3_out, message_buffer)
             /\ \E i \in DOMAIN enqueued : enqueued[i] = message_buffer
             /\ \A t \in Tasks \ {"Print_Task"} : task'[t] = task[t]
       /\ \A t \in Tasks : task'[t].pc = "p_transmit" => t = "Print_Task"
       /\ Len(uart3_out') <= Len(enqueued')]_vars

\* the print task has just transmitted a message that the watchdog task had
\* posted, after one that the communication task had posted
C33_Witness ==
    /\ Len(uart3_out) >= 2
    /\ EventsOf("uart3") # {}
    /\ uart3_out[Len(uart3_out)].src = "Watchdog"
    /\ \E i \in DOMAIN uart3_out : uart3_out[i].src = "ESP8266_Comm"
    /\ task["Print_Task"].pc = "p_receive"

\* C34 (as claimed): the ACK stored in the request log for a /pattern request is
\* empty or the STM32's acknowledgment of that request's own command.
C34_AckAttribution ==
    \A i \in 0..(MAX_REQUESTS - 1) :
        recentRequests[i].endpoint = "/pattern" =>
            \/ recentRequests[i].ack = <<>>
            \/ recentRequests[i].ack = AckChars(recentRequests[i].p)

\* C35 (as claimed): two tasks whose watchdog_register calls have returned a
\* valid id hold different ids, and num_registered is the number of entries
\* marked registered.
C35_UniqueIds ==
    /\ \A t, u \in Registrants :
          (/\ t # u
           /\ task[t].pc = "r_done" /\ task[t].id # WATCHDOG_INVALID_ID
           /\ task[u].pc = "r_done" /\ task[u].id # WATCHDOG_INVALID_ID)
             => task[t].id # task[u].id
    /\ num_registered = Cardinality({id \in WatchdogIds : watchdog_tasks[id].registered})

\* what holds of the line buffer in every state
LineBufferInv ==
    /\ rx_index \in 0..(UART_RX_BUFFER_SIZE - 1)
    /\ Len(rx_buffer) = rx_index
    /\ \A k \in 1..Len(rx_buffer) : ~IsTerminator(rx_buffer[k])

\* C36 (as claimed): 0 <= rx_index <= 63, every write into rx_buffer is at an
\* index <= 63, and every line handed to process_led_command has length
\* between 1 and 63 and holds no '\n' or '\r'.
C36_LineBounds ==
    /\ LineBufferInv
    /\ \A i \in LineEvents :
          /\ Len(events[i].line) \in 1..(UART_RX_BUFFER_SIZE - 1)
          /\ \A k \in 1..Len(events[i].line) : ~IsTerminator(events[i].line[k])

\* C36 (amended): 0 <= rx_index <= 63 and every write into rx_buffer, the
\* terminating NUL included, is at an index <= 63; a line is handed to
\* process_led_command only with 1 to 63 bytes buffered, none of them '\n' or
\* '\r', and the string the dispatcher reads is those bytes up to the first
\* 0x00 among them, so its length is between 0 and 63.
C36_LineBoundsBytes ==
    [][/\ LineBufferInv
       /\ LineBufferInv'
       /\ ByteRead =>
            LET byte == Head(uart_stream_buffer)
            IN /\ (~IsTerminator(byte) /\ rx_index < UART_RX_BUFFER_SIZE - 1) =>
                      /\ rx_index' = rx_index + 1
                      /\ rx_buffer' = Append(rx_buffer, byte)
               /\ (LineEvents # {})' <=> (IsTerminator(byte) /\ rx_index > 0)
               /\ (IsTerminator(byte) /\ rx_index > 0) =>
                      /\ rx_index \in 1..(UART_RX_BUFFER_SIZE - 1)
                      /\ \A i \in LineEvents' :
                            /\ events'[i].line = CStr(SubSeq(rx_buffer, 1, rx_index))
                            /\ Len(events'[i].line) \in 0..(UART_RX_BUFFER_SIZE - 1)
                            /\ \A k \in 1..Len(events'[i].line) :
                                  /\ ~IsTerminator(events'[i].line[k])
                                  /\ events'[i].line[k] # NUL]_vars

\* 63 bytes of which the first is 0x00 were buffered and, on the terminator,
\* handed over as the empty string
C36_Witness ==
    /\ \E i \in LineEvents : events[i].line = <<>>
    /\ rx_index = 0
    /\ Len(consumed) = UART_RX_BUFFER_SIZE
    /\ consumed[1] = NUL

AlertWritten(n) == \E i \in DOMAIN uart3_out : uart3_out[i] = [src |-> "Watchdog", n |-> n]

\* the n-th message of the watchdog task is still on its way to UART3
AlertPending(n) ==
    \/ \E i \in DOMAIN print_queue : print_queue[i] = [src |-> "Watchdog", n |-> n]
    \/ /\ task["Print_Task"].pc = "p_transmit"
       /\ message_buffer = [src |-> "Watchdog", n |-> n]

\* C38 (as claimed): with no callback set, every alert the watchdog task has
\* detected and handed to print_message is written to the debug output (UART3)
\* or is still on its way there, in print_queue or in the print task's hands:
\* an alert that is neither can never be written.
C38_AlertVisible ==
    ~timeout_callback =>
        \A n \in 1..posted["Watchdog"] : AlertWritten(n) \/ AlertPending(n)

\* the LED_CMD lines whose token is 1, 2, 3 or 4
ValidLedLines == { S_LED_CMD \o <<tok>> : tok \in {"1", "2", "3", "4"} }

\* C39 (as claimed): a step that dispatches a LED_CMD line with token 1, 2, 3
\* or 4 leaves current_pattern at the pattern that token selects, whatever
\* became of the acknowledgment; every other step, whichever line it
\* dispatches, leaves current_pattern as it was.
C39_PatternFollowsLastValid ==
    [][IF \E i \in LineEvents' : events'[i].line \in ValidLedLines
       THEN \A i \in LineEvents' :
               current_pattern' = LedCommand(events'[i].line[Len(S_LED_CMD) + 1]).pattern
       ELSE current_pattern' = current_pattern]_vars

\* the posts that report a frame as not sent
FailurePosts == Posts(MSG_PONG_FAILED) \cup Posts(MSG_ACK_FAILED) \cup Posts(MSG_PING_FAILED)

\* C40 (as claimed): every frame the communication task transmits in an
\* iteration of its loop goes through the retry loop: at most MAX_RETRIES
\* attempts, a failed attempt before the last is followed by another attempt
\* of the same frame, and a failed last attempt by a post reporting the failure.
C40_UniformRetry ==
    \A k \in EventsOf("tx") :
        LET attempts == {j \in TxEvents(events[k].frame) : j <= k}
        IN /\ Cardinality(attempts) <= MAX_RETRIES
           /\ events[k].status # "HAL_OK" =>
                 IF Cardinality(attempts) < MAX_RETRIES
                 THEN \E j \in TxEvents(events[k].frame) : j > k
                 ELSE \E j \in FailurePosts : j > k
====
